---- MODULE Spec2Model ----
(***************************************************************************)
(* Authentication, user provisioning and session handling of the bakery    *)
(* MRP application (src/SistemaPanaderia/app.py).                          *)
(*                                                                         *)
(* The SQLite file is shared by every Streamlit session; each session has  *)
(* its own st.session_state.  A handler is split into one action per       *)
(* committed statement, and at every st.rerun(), because other sessions    *)
(* run between two commits and between a run and its rerun: pc tells where *)
(* a session's handler stands and pendiente holds its locals.              *)
(*                                                                         *)
(* An INSERT that a constraint refuses leaves its connection inside the    *)
(* write transaction; crear_usuario_sistema and crear_producto_sistema     *)
(* return from their except branch without rollback or close, so the       *)
(* write lock stays taken (bloqueo) until the garbage collector frees the  *)
(* connection, and every write of every session fails meanwhile.           *)
(* The parameter falla of a step makes sqlite3 raise at its statement for  *)
(* a reason of the environment; Spec takes every step with falla FALSE.    *)
(***************************************************************************)
EXTENDS Integers, Sequences, FiniteSets, TLC

\* ------------------------------------------------------------------ bounds
\* Rows of logs_sistema a behaviour may write.
MaxLogs == 3
\* Value of the clock of ultimo_acceso up to which a login advances it.
MaxAccesos == 3
\* Rows of productos a behaviour may write.
MaxProductos == 2

\* ------------------------------------------------------------- input sets
Conexiones == {"c1", "c2"}
RolesFormulario == {"admin", "produccion"}

\* Submissions of the login form: each field empty or filled, the username
\* in either case, the password the default one or another one.
EntradasLogin ==
    [username : {"", "admin", "Admin", "jdoe"}, password : {"", "Admin2024!", "Baker99"}]

\* Submissions of the creation form: the well-formed ones, then one whose
\* confirmation differs, two with too short a password, and four with one
\* field left empty.
EntradasCrear ==
    {[username |-> u, nombre |-> "Juan", rol |-> r, password |-> p, confirm_password |-> p] :
        u \in {"admin", "Admin"}, r \in RolesFormulario, p \in {"Admin2024!", "Baker99"}}
    \cup [username : {"Admin"}, nombre : {"Juan"}, rol : {"produccion"},
          password : {"corta"}, confirm_password : {"corta", "Baker99"}]
    \cup {[username |-> "Admin", nombre |-> "Juan", rol |-> "produccion",
           password |-> "Admin2024!", confirm_password |-> "Baker99"],
          [username |-> "", nombre |-> "Juan", rol |-> "produccion",
           password |-> "Baker99", confirm_password |-> "Baker99"],
          [username |-> "Admin", nombre |-> "", rol |-> "produccion",
           password |-> "Baker99", confirm_password |-> "Baker99"],
          [username |-> "Admin", nombre |-> "Juan", rol |-> "produccion",
           password |-> "", confirm_password |-> "Baker99"],
          [username |-> "Admin", nombre |-> "Juan", rol |-> "produccion",
           password |-> "Baker99", confirm_password |-> ""]}

\* Submissions of the password form, along the same lines.
EntradasCambiar ==
    {[password_actual |-> a, nueva_password |-> p, confirmar_password |-> p] :
        a \in {"Admin2024!", "Baker99"}, p \in {"Admin2024!", "Baker99"}}
    \cup [password_actual : {"Admin2024!"}, nueva_password : {"corta"},
          confirmar_password : {"corta", "Baker99"}]
    \cup {[password_actual |-> "Admin2024!", nueva_password |-> "Admin2024!",
           confirmar_password |-> "Baker99"],
          [password_actual |-> "", nueva_password |-> "Baker99", confirmar_password |-> "Baker99"],
          [password_actual |-> "Admin2024!", nueva_password |-> "", confirmar_password |-> "Baker99"],
          [password_actual |-> "Admin2024!", nueva_password |-> "Baker99", confirmar_password |-> ""]}

\* Submissions of the product form: the code left empty, blank or given, the name
\* left empty or given (category and unit come from selectboxes).
EntradasProducto == [codigo : {"", " ", "P1"}, nombre : {"", "Pan"}]

\* Python's None: the empty session slot, no pending statement.
None == [none |-> TRUE]

\* ---------------------------------------------------------- configuration
SECRET_KEY == "paraderia-mrp-2024-secure-key-streamlit-cloud"
salt == "paraderia-salt-2024-streamlit-"
MinPasswordLen == 6

\* ------------------------------------------------------------ UI messages
\* The texts of st.error and st.success, without the pictograph each starts
\* with; the Error texts carry str(e) of the exception of sqlite3 caught.
MsgLoginCampos == "Por favor complete todos los campos"
MsgLoginIncorrecto == "Usuario o contraseña incorrectos"
MsgCrearCampos == "Complete todos los campos obligatorios"
MsgCrearNoCoinciden == "Las contraseñas no coinciden"
MsgCrearCorta == "La contraseña debe tener al menos 6 caracteres"
MsgCrearExiste == "El nombre de usuario ya existe"
MsgCrearOk == "Usuario creado exitosamente"
MsgCrearError == "Error: UNIQUE constraint failed: usuarios.username"
MsgCrearErrorFK == "Error: FOREIGN KEY constraint failed"
MsgCambiarCampos == "Complete todos los campos"
MsgCambiarNoCoinciden == "Las contraseñas nuevas no coinciden"
MsgCambiarCorta == "La nueva contraseña debe tener al menos 6 caracteres"
MsgCambiarOk == "Contraseña cambiada exitosamente"
MsgCambiarIncorrecta == "Contraseña actual incorrecta"
MsgLoginOk == "¡Autenticación exitosa!"
MsgReinicializada == "Conexión a BD reinicializada"
MsgProductoCampos == "Complete los campos obligatorios (*)"
MsgProductoOk == "Producto creado exitosamente"
MsgProductoError == "Error: UNIQUE constraint failed: productos.codigo"
SinMensaje == ""
\* What Streamlit renders for an exception of sqlite3 that no handler catches.
MsgExcepcion == "sqlite3.OperationalError: database is locked"
\* f"Error: {str(e)}" of crear_usuario_sistema and crear_producto_sistema
\* for the same exception.
MsgCrearErrorMotor == "Error: database is locked"
\* The two for a statement on a table the file does not have.
ExcepcionSinTabla(tabla) == "sqlite3.OperationalError: no such table: " \o tabla
ErrorSinTabla(tabla) == "Error: no such table: " \o tabla

VARIABLES
    tablas,          \* the schema exists in the SQLite file
    usuarios,        \* table usuarios: row i has id i (AUTOINCREMENT, no DELETE)
    productos,       \* table productos, in insertion order
    logs_sistema,    \* table logs_sistema, in insertion order
    bloqueo,         \* a connection abandoned inside its write transaction
                     \* holds the write lock of the file
    cache_init,      \* st.cache_resource holds the result of init_database
    usuario,         \* st.session_state.usuario of each session
    db_initialized,  \* 'db_initialized' in st.session_state of each session
    logout_trigger,  \* st.session_state.logout_trigger of each session
    pc,              \* where each session's running handler stands
    pendiente,       \* the locals of a handler between two of its statements
    salida,          \* the last step taken: which step ran and the
                     \* st.error / st.success text it showed
    reportado        \* history: per user id, the credentials the last successful
                     \* creation or password change of that user was given

vars == <<tablas, usuarios, productos, logs_sistema, bloqueo, cache_init, usuario,
          db_initialized, logout_trigger, pc, pendiente, salida, reportado>>
db == <<tablas, usuarios, productos, logs_sistema, bloqueo>>
sesion == <<usuario, db_initialized, logout_trigger>>

\* What a step leaves on the screen ...
Salida(op, texto) == [op |-> op, mensaje |-> texto]
\* ... and what it leaves when sqlite3 raised at one of its statements:
\* falla names the statement, entrada the submission when the claims need it.
SalidaFalla(op, texto, falla, entrada) ==
    [op |-> op, mensaje |-> texto, falla |-> falla, entrada |-> entrada]

\* ------------------------------------------------------------- pure parts
\* sha256 is modelled as an injective, non-invertible tag over the salted text.
hash_password(password) == "sha256(" \o password \o salt \o SECRET_KEY \o ")"

LogRow(usuario_id, modulo, accion, detalles) ==
    [usuario_id |-> usuario_id, modulo |-> modulo, accion |-> accion, detalles |-> detalles]

\* The latest ultimo_acceso stored (0 is NULL).
Maximo(S) == CHOOSE x \in S : \A y \in S : y <= x
UltimoSello(us) == Maximo({0} \cup {us[i].ultimo_acceso : i \in DOMAIN us})

\* CURRENT_TIMESTAMP has a resolution of one second: the values a statement
\* may read are the second of the latest stamp stored, when the statement
\* runs within that second, and the second after it.  Stamps are kept as
\* ranks, and only up to MaxAccesos.
CURRENT_TIMESTAMP(us) ==
    {t \in {UltimoSello(us), UltimoSello(us) + 1} : t >= 1 /\ t <= MaxAccesos}

\* Variant of AdminRow: the bootstrap row with rol 'usuario' instead of 'admin'.
AdminRowRolPorDefecto(id) ==
    [id |-> id, username |-> "admin", nombre |-> "Administrador Principal",
     rol |-> "usuario", password |-> hash_password("Admin2024!"), permisos |-> "all",
     creado_por |-> 1, ultimo_acceso |-> 0, activo |-> TRUE]

\* The row init_database inserts for the administrator.
AdminRow(id) ==
    [id |-> id, username |-> "admin", nombre |-> "Administrador Principal",
     rol |-> "admin", password |-> hash_password("Admin2024!"), permisos |-> "all",
     creado_por |-> 1, ultimo_acceso |-> 0, activo |-> TRUE]

\* SELECT COUNT(*) FROM usuarios WHERE username = 'admin'
CuentaAdmin(us) == Cardinality({i \in DOMAIN us : us[i].username = "admin"})

\* SELECT id FROM usuarios WHERE username = ?
ExisteUsername(us, username) == \E i \in DOMAIN us : us[i].username = username

\* Variant of ViolaUnique: the column declared without UNIQUE.
SinUnique(us, username) == FALSE

\* username TEXT UNIQUE NOT NULL: the INSERT of a row raises IntegrityError
\* when a row with that username (compared byte by byte) is in the table.
ViolaUnique(us, username) == \E i \in DOMAIN us : us[i].username = username

\* FOREIGN KEY (creado_por) REFERENCES usuarios(id), under PRAGMA
\* foreign_keys = ON: the INSERT raises IntegrityError when creado_por is the
\* id of no row, the new row itself included.
ViolaForanea(us, fila) == fila.creado_por \notin {us[i].id : i \in DOMAIN us} \cup {fila.id}

\* INSERT INTO usuarios: the table after the statement, unchanged when a
\* constraint rejects the row.
InsertarUsuario(us, fila) ==
    IF ViolaUnique(us, fila.username) \/ ViolaForanea(us, fila) THEN us ELSE Append(us, fila)

\* Variant of init_database: the tables are created and no row is inserted.
init_database_sin_admin(us) == us

\* The whole of init_database run without interruption.
init_database(us) ==
    IF CuentaAdmin(us) = 0 THEN InsertarUsuario(us, AdminRow(Len(us) + 1)) ELSE us

\* Variant of FilasAutenticadas: the WHERE clause without "AND activo = 1".
FilasSinActivo(us, username, password) ==
    {i \in DOMAIN us : /\ us[i].username = username
                       /\ us[i].password = hash_password(password)}

\* The WHERE clause of autenticar_usuario.
FilasAutenticadas(us, username, password) ==
    {i \in DOMAIN us : /\ us[i].username = username
                       /\ us[i].password = hash_password(password)
                       /\ us[i].activo}

\* Variant of Identidad: SELECT * instead of the five columns.
IdentidadSelectTodo(fila) == fila

\* The columns it selects, as dict(usuario).
Identidad(fila) ==
    [id |-> fila.id, username |-> fila.username, nombre |-> fila.nombre,
     rol |-> fila.rol, permisos |-> fila.permisos]

\* UPDATE usuarios SET ultimo_acceso = CURRENT_TIMESTAMP WHERE id = ?
TocarUltimoAcceso(us, id, ahora) ==
    [i \in DOMAIN us |-> IF us[i].id = id THEN [us[i] EXCEPT !.ultimo_acceso = ahora]
                                          ELSE us[i]]

\* The rows autenticar_usuario writes to logs_sistema (usuario_id 0 stands
\* for the NULL of the LOGIN_FALLIDO row).
FilaLoginExitoso(id, username) == LogRow(id, "AUTH", "LOGIN_EXITOSO", "Usuario: " \o username)
FilaLoginFallido(username) ==
    LogRow(0, "AUTH", "LOGIN_FALLIDO", "Intento fallido para usuario: " \o username)

\* autenticar_usuario run without interruption and without sqlite3 raising
\* at a write: what it returns and what it leaves in the two tables.
\* Without the schema the SELECT raises and the except branch returns None.
\* ahora is the value CURRENT_TIMESTAMP has at the UPDATE.
autenticar_usuario(hay_tablas, us, logs, username, password, ahora) ==
    LET filas == FilasAutenticadas(us, username, password)
    IN  IF ~hay_tablas
        THEN [ret |-> None, usuarios |-> us, logs |-> logs]
        ELSE IF filas # {}
        THEN LET i == CHOOSE j \in filas : \A k \in filas : j <= k
             IN  [ret |-> Identidad(us[i]),
                  usuarios |-> TocarUltimoAcceso(us, us[i].id, ahora),
                  logs |-> Append(logs, FilaLoginExitoso(us[i].id, username))]
        ELSE [ret |-> None, usuarios |-> us,
              logs |-> Append(logs, FilaLoginFallido(username))]

\* Variant of mostrar_login: a failed login of an existing username is told
\* apart in the text shown.
mostrar_login_detallado(hay_tablas, us, logs, username, password, ahora) ==
    IF username = "" \/ password = ""
    THEN [usuario |-> None, mensaje |-> MsgLoginCampos, usuarios |-> us, logs |-> logs]
    ELSE LET r == autenticar_usuario(hay_tablas, us, logs, username, password, ahora)
         IN  [usuario |-> r.ret,
              mensaje |-> IF r.ret # None THEN MsgLoginOk
                          ELSE IF ExisteUsername(us, username) THEN MsgCambiarIncorrecta
                          ELSE MsgLoginIncorrecto,
              usuarios |-> r.usuarios, logs |-> r.logs]

\* The submit branch of mostrar_login: the identity put in the session slot
\* (None when none is), the text shown, and the tables afterwards.
mostrar_login(hay_tablas, us, logs, username, password, ahora) ==
    IF username = "" \/ password = ""
    THEN [usuario |-> None, mensaje |-> MsgLoginCampos, usuarios |-> us, logs |-> logs]
    ELSE LET r == autenticar_usuario(hay_tablas, us, logs, username, password, ahora)
         IN  [usuario |-> r.ret,
              mensaje |-> IF r.ret # None THEN MsgLoginOk ELSE MsgLoginIncorrecto,
              usuarios |-> r.usuarios, logs |-> r.logs]

\* The bound on the model: a call that adds a row to logs_sistema is started,
\* and the row is added, only while the table holds fewer than MaxLogs rows.
CabeLog == Len(logs_sistema) < MaxLogs

\* History bookkeeping: the entry of user id replaced by a new one.
Reportar(rep, entrada) == {g \in rep : g.id # entrada.id} \cup {entrada}
\* ------------------------------------------------------------------- Init
\* The database file outlives the process: a process starts either on a file
\* without schema or on one init_database has already populated.
Init ==
    /\ tablas \in BOOLEAN
    /\ usuarios = IF tablas THEN init_database(<<>>) ELSE <<>>
    /\ productos = <<>>
    /\ logs_sistema = <<>>
    /\ bloqueo = FALSE
    /\ cache_init = FALSE
    /\ usuario = [c \in Conexiones |-> None]
    /\ db_initialized = [c \in Conexiones |-> FALSE]
    /\ logout_trigger = [c \in Conexiones |-> FALSE]
    /\ pc = [c \in Conexiones |-> "idle"]
    /\ pendiente = [c \in Conexiones |-> None]
    /\ salida = Salida("inicio", SinMensaje)
    /\ reportado = {}

\* main(): which page a session's next run renders.
EnLogin(c) == pc[c] = "idle" /\ usuario[c] = None
EnMenu(c) == pc[c] = "idle" /\ usuario[c] # None /\ ~logout_trigger[c]
\* Variant of EnUsuarios: the page reached without looking at the session.
EnUsuariosSinSesion(c) == pc[c] = "idle"

\* mostrar_menu_principal: the usuarios and configuracion tabs exist for admin only.
EnUsuarios(c) == EnMenu(c) /\ usuario[c].rol = "admin"

\* A write statement raises: for a reason of the environment (falla) or
\* because the write lock is taken (five seconds of busy timeout, then
\* "database is locked").
EscrituraFalla(falla) == falla \/ bloqueo

\* What a login that fails after its SELECT was about: the username
\* submitted and the id of the row that matched (0 when none did).
EntradaDe(l) == [username |-> l.username, id |-> l.id]

\* ------------------------------------------------------------------ login
\* The submit branch of mostrar_login up to the SELECT of autenticar_usuario:
\* the empty-field check, then the row that matches, if any.  A failure of
\* get_db_connection or of the SELECT ends in the except branch.
MostrarLogin(c, username, password, falla) ==
    /\ EnLogin(c)
    /\ IF username = "" \/ password = ""
       THEN /\ salida' = Salida("login", MsgLoginCampos)
            /\ UNCHANGED <<pc, pendiente>>
       ELSE IF falla
       THEN /\ salida' = SalidaFalla("login", MsgLoginIncorrecto, "select",
                                     [username |-> username, password |-> password])
            /\ UNCHANGED <<pc, pendiente>>
       ELSE IF ~tablas
       THEN /\ salida' = Salida("login", MsgLoginIncorrecto)
            /\ UNCHANGED <<pc, pendiente>>
       ELSE \E filas \in {FilasAutenticadas(usuarios, username, password)} :
            /\ CabeLog
            /\ salida' = Salida("login_select", SinMensaje)
            /\ IF filas = {}
               THEN /\ pc' = [pc EXCEPT ![c] = "login_fallido"]
                    /\ pendiente' = [pendiente EXCEPT ![c] =
                          [username |-> username, id |-> 0, identidad |-> None]]
               ELSE \E i \in {CHOOSE j \in filas : \A k \in filas : j <= k} :
                    /\ pc' = [pc EXCEPT ![c] = "login_update"]
                    /\ pendiente' = [pendiente EXCEPT ![c] =
                          [username |-> username, id |-> usuarios[i].id,
                           identidad |-> Identidad(usuarios[i])]]
    /\ UNCHANGED <<db, cache_init, sesion, reportado>>

\* autenticar_usuario, the UPDATE of ultimo_acceso and its commit.
AutenticarUpdate(c, falla) ==
    /\ pc[c] = "login_update"
    /\ \E l \in {pendiente[c]} :
       IF EscrituraFalla(falla)
       THEN /\ salida' = SalidaFalla("login", MsgLoginIncorrecto, "update", EntradaDe(l))
            /\ pc' = [pc EXCEPT ![c] = "idle"]
            /\ pendiente' = [pendiente EXCEPT ![c] = None]
            /\ UNCHANGED usuarios
       ELSE \E ahora \in CURRENT_TIMESTAMP(usuarios) :
            /\ usuarios' = TocarUltimoAcceso(usuarios, l.id, ahora)
            /\ salida' = Salida("login_update", SinMensaje)
            /\ pc' = [pc EXCEPT ![c] = "login_log"]
            /\ UNCHANGED pendiente
    /\ UNCHANGED <<tablas, productos, logs_sistema, bloqueo, cache_init, sesion, reportado>>

\* Variant of AutenticarLog: the identity kept in a module-level variable
\* that every session shares, so that one login fills every slot.
AutenticarLogGlobal(c, falla) ==
    /\ pc[c] = "login_log"
    /\ \E l \in {pendiente[c]} :
       IF falla \/ bloqueo
       THEN /\ salida' = [op |-> "login", mensaje |-> MsgLoginIncorrecto, falla |-> "log",
                          entrada |-> [username |-> l.username, id |-> l.id]]
            /\ pc' = [pc EXCEPT ![c] = "idle"]
            /\ UNCHANGED <<logs_sistema, usuario>>
       ELSE /\ Len(logs_sistema) < MaxLogs
            /\ logs_sistema' = Append(logs_sistema, FilaLoginExitoso(l.id, l.username))
            /\ usuario' = [d \in DOMAIN usuario |-> l.identidad]
            /\ salida' = [op |-> "login_log", mensaje |-> MsgLoginOk]
            /\ pc' = [pc EXCEPT ![c] = "rerun"]
    /\ pendiente' = [pendiente EXCEPT ![c] = None]
    /\ UNCHANGED <<tablas, usuarios, productos, bloqueo, cache_init, db_initialized,
                   logout_trigger, reportado>>

\* autenticar_usuario, the INSERT of the LOGIN_EXITOSO row and its commit,
\* the return of dict(usuario), and mostrar_login's store into
\* st.session_state.usuario followed by st.rerun().  When the INSERT raises,
\* the except branch returns None after the UPDATE has been committed.
AutenticarLog(c, falla) ==
    /\ pc[c] = "login_log"
    /\ \E l \in {pendiente[c]} :
       IF EscrituraFalla(falla)
       THEN /\ salida' = SalidaFalla("login", MsgLoginIncorrecto, "log", EntradaDe(l))
            /\ pc' = [pc EXCEPT ![c] = "idle"]
            /\ UNCHANGED <<logs_sistema, usuario>>
       ELSE /\ CabeLog
            /\ logs_sistema' = Append(logs_sistema, FilaLoginExitoso(l.id, l.username))
            /\ usuario' = [usuario EXCEPT ![c] = l.identidad]
            /\ salida' = Salida("login_log", MsgLoginOk)
            /\ pc' = [pc EXCEPT ![c] = "rerun"]
    /\ pendiente' = [pendiente EXCEPT ![c] = None]
    /\ UNCHANGED <<tablas, usuarios, productos, bloqueo, cache_init, db_initialized,
                   logout_trigger, reportado>>

\* autenticar_usuario without a matching row: the INSERT of the
\* LOGIN_FALLIDO row and its commit, and the return of None.
AutenticarFallido(c, falla) ==
    /\ pc[c] = "login_fallido"
    /\ \E l \in {pendiente[c]} :
       IF EscrituraFalla(falla)
       THEN /\ salida' = SalidaFalla("login", MsgLoginIncorrecto, "log", EntradaDe(l))
            /\ UNCHANGED logs_sistema
       ELSE /\ CabeLog
            /\ logs_sistema' = Append(logs_sistema, FilaLoginFallido(l.username))
            /\ salida' = Salida("login_fallido", MsgLoginIncorrecto)
    /\ pc' = [pc EXCEPT ![c] = "idle"]
    /\ pendiente' = [pendiente EXCEPT ![c] = None]
    /\ UNCHANGED <<tablas, usuarios, productos, bloqueo, cache_init, sesion, reportado>>

\* ------------------------------------------------- the run after a rerun
\* mostrar_dashboard in the run that follows st.rerun(): the session has run
\* init_database already, or st.cache_resource returns the stored result;
\* no statement is executed.
MostrarDashboard(c) ==
    /\ pc[c] = "rerun"
    /\ usuario[c] # None
    /\ ~logout_trigger[c]
    /\ db_initialized[c] \/ cache_init
    /\ db_initialized' = [db_initialized EXCEPT ![c] = TRUE]
    /\ pc' = [pc EXCEPT ![c] = "idle"]
    /\ salida' = Salida("dashboard", SinMensaje)
    /\ UNCHANGED <<db, cache_init, usuario, logout_trigger, pendiente, reportado>>

\* mostrar_dashboard when st.cache_resource holds nothing: init_database
\* executes its CREATE TABLE IF NOT EXISTS statements, each of which finds
\* its table (EsquemaTrasLogin), and the SELECT COUNT(*) for 'admin'; with
\* the row there it returns, its result is stored in the cache and the
\* session sets db_initialized ...
ArranqueSelect(c) ==
    /\ pc[c] = "rerun"
    /\ usuario[c] # None
    /\ ~logout_trigger[c]
    /\ ~db_initialized[c]
    /\ ~cache_init
    /\ tablas
    /\ IF CuentaAdmin(usuarios) = 0
       THEN /\ pc' = [pc EXCEPT ![c] = "boot_insert"]
            /\ UNCHANGED <<cache_init, db_initialized>>
       ELSE /\ pc' = [pc EXCEPT ![c] = "idle"]
            /\ cache_init' = TRUE
            /\ db_initialized' = [db_initialized EXCEPT ![c] = TRUE]
    /\ salida' = Salida("arranque_select", SinMensaje)
    /\ UNCHANGED <<db, usuario, logout_trigger, pendiente, reportado>>

\* ... and without it, the INSERT of the administrator inside try/except:
\* pass (a refused or locked INSERT is swallowed, and the conn.commit() that
\* follows ends its transaction), then the same return.
ArranqueInsert(c) ==
    /\ pc[c] = "boot_insert"
    /\ usuarios' = IF bloqueo THEN usuarios
                   ELSE InsertarUsuario(usuarios, AdminRow(Len(usuarios) + 1))
    /\ cache_init' = TRUE
    /\ db_initialized' = [db_initialized EXCEPT ![c] = TRUE]
    /\ pc' = [pc EXCEPT ![c] = "idle"]
    /\ salida' = Salida("arranque_insert", SinMensaje)
    /\ UNCHANGED <<tablas, productos, logs_sistema, bloqueo, usuario, logout_trigger,
                   pendiente, reportado>>

\* ----------------------------------------------------------------- logout
\* mostrar_barra_navegacion in a run whose session holds slot and trigger:
\* the bar reads usuario['nombre'], which raises TypeError on None; with the
\* trigger set, the LOGOUT row is written and both keys are deleted (main()
\* of the following run puts None and False back).
mostrar_barra_navegacion(slot, trigger, logs) ==
    IF slot = None
    THEN [excepcion |-> TRUE, usuario |-> slot, logout_trigger |-> trigger, logs |-> logs]
    ELSE IF trigger
    THEN [excepcion |-> FALSE, usuario |-> None, logout_trigger |-> FALSE,
          logs |-> Append(logs, LogRow(slot.id, "AUTH", "LOGOUT", "Usuario cerró sesión"))]
    ELSE [excepcion |-> FALSE, usuario |-> slot, logout_trigger |-> trigger, logs |-> logs]

\* The logout branch of mostrar_barra_navegacion when sqlite3 raises: the
\* exception leaves the function before the two del statements, so the
\* slot keeps the identity and the trigger stays set.
mostrar_barra_navegacion_falla(slot, trigger, logs) ==
    [excepcion |-> TRUE, usuario |-> slot, logout_trigger |-> TRUE, logs |-> logs]

\* main() as far as the session and the log are concerned: the login page
\* when the slot is falsy, the bar (and the menu) otherwise; falla tells
\* whether the INSERT of the LOGOUT row raises.
main(slot, trigger, logs, falla) ==
    IF slot = None
    THEN [excepcion |-> FALSE, usuario |-> slot, logout_trigger |-> trigger, logs |-> logs]
    ELSE IF falla /\ trigger
    THEN mostrar_barra_navegacion_falla(slot, trigger, logs)
    ELSE mostrar_barra_navegacion(slot, trigger, logs)

\* The button "Cerrar Sesión": sets logout_trigger and calls st.rerun().
LogoutBoton(c) ==
    /\ EnMenu(c)
    /\ logout_trigger' = [logout_trigger EXCEPT ![c] = TRUE]
    /\ pc' = [pc EXCEPT ![c] = "rerun"]
    /\ salida' = Salida("logout_boton", SinMensaje)
    /\ UNCHANGED <<db, cache_init, usuario, db_initialized, pendiente, reportado>>

\* Variant of Logout: the slot kept in a module-level variable that every
\* session shares, so that one logout empties them all.
LogoutGlobal(c, falla) ==
    /\ pc[c] = "rerun" /\ usuario[c] # None /\ logout_trigger[c]
    /\ IF falla \/ bloqueo
       THEN /\ salida' = [op |-> "logout", mensaje |-> MsgExcepcion, falla |-> "log",
                          entrada |-> None]
            /\ UNCHANGED <<logs_sistema, usuario, logout_trigger, pc>>
       ELSE /\ Len(logs_sistema) < MaxLogs
            /\ logs_sistema' = Append(logs_sistema,
                                      [usuario_id |-> usuario[c].id, modulo |-> "AUTH",
                                       accion |-> "LOGOUT", detalles |-> "Usuario cerró sesión"])
            /\ usuario' = [d \in DOMAIN usuario |-> [none |-> TRUE]]
            /\ logout_trigger' = [logout_trigger EXCEPT ![c] = FALSE]
            /\ pc' = [pc EXCEPT ![c] = "idle"]
            /\ salida' = [op |-> "logout", mensaje |-> ""]
    /\ UNCHANGED <<tablas, usuarios, productos, bloqueo, cache_init, db_initialized,
                   pendiente, reportado>>

\* The run that follows the button, and every later run of a session whose
\* trigger stayed set: the logout branch writes the LOGOUT row, deletes
\* st.session_state.usuario and the trigger and calls st.rerun(), whose run
\* renders the login page.  When the INSERT raises, nothing catches the
\* exception and the run ends with slot and trigger as they were.
Logout(c, falla) ==
    /\ pc[c] = "rerun"
    /\ usuario[c] # None
    /\ logout_trigger[c]
    /\ \E r \in {main(usuario[c], logout_trigger[c], logs_sistema, EscrituraFalla(falla))} :
          /\ ~r.excepcion => CabeLog
          /\ logs_sistema' = r.logs
          /\ usuario' = [usuario EXCEPT ![c] = r.usuario]
          /\ logout_trigger' = [logout_trigger EXCEPT ![c] = r.logout_trigger]
          /\ pc' = [pc EXCEPT ![c] = IF r.excepcion THEN "rerun" ELSE "idle"]
          /\ salida' = IF r.excepcion
                       THEN SalidaFalla("logout", MsgExcepcion, "log", None)
                       ELSE Salida("logout", SinMensaje)
    /\ UNCHANGED <<tablas, usuarios, productos, bloqueo, cache_init, db_initialized,
                   pendiente, reportado>>

\* ---------------------------------------------------------- user creation
\* Variant of ValidarCrear: the length check left out.
ValidarCrearSinLongitud(username, nombre, password, confirm_password) ==
    IF username = "" \/ nombre = "" \/ password = "" \/ confirm_password = ""
    THEN MsgCrearCampos
    ELSE IF password # confirm_password THEN MsgCrearNoCoinciden
    ELSE SinMensaje

\* The validations of the creation form, in the order of the elif chain:
\* the text of the rejection, or SinMensaje when the submission passes.
ValidarCrear(username, nombre, password, confirm_password) ==
    IF username = "" \/ nombre = "" \/ password = "" \/ confirm_password = ""
    THEN MsgCrearCampos
    ELSE IF password # confirm_password THEN MsgCrearNoCoinciden
    ELSE IF Len(password) < MinPasswordLen THEN MsgCrearCorta
    ELSE SinMensaje

\* Variant of formulario_crear: the creator recorded is always id 1, the
\* value init_database writes for the administrator.
formulario_crear_creador_fijo(hay_tablas, us, admin_id, username, nombre, rol, password, confirm_password) ==
    LET rechazo == ValidarCrear(username, nombre, password, confirm_password)
    IN  IF rechazo # SinMensaje THEN [mensaje |-> rechazo, pendiente |-> None]
        ELSE IF ~hay_tablas THEN [mensaje |-> ErrorSinTabla("usuarios"), pendiente |-> None]
        ELSE IF ExisteUsername(us, username)
        THEN [mensaje |-> MsgCrearExiste, pendiente |-> None]
        ELSE [mensaje |-> SinMensaje,
              pendiente |-> [username |-> username, nombre |-> nombre, rol |-> rol,
                             password |-> password, admin_id |-> 1]]

\* The form of mostrar_gestion_usuarios (tab "Crear Usuario") submitted by
\* admin_id: the validations, then crear_usuario_sistema up to its SELECT.
\* The text shown and the INSERT left to execute (None when there is none).
formulario_crear(hay_tablas, us, admin_id, username, nombre, rol, password, confirm_password) ==
    LET rechazo == ValidarCrear(username, nombre, password, confirm_password)
    IN  IF rechazo # SinMensaje THEN [mensaje |-> rechazo, pendiente |-> None]
        ELSE IF ~hay_tablas THEN [mensaje |-> ErrorSinTabla("usuarios"), pendiente |-> None]
        ELSE IF ExisteUsername(us, username)
        THEN [mensaje |-> MsgCrearExiste, pendiente |-> None]
        ELSE [mensaje |-> SinMensaje,
              pendiente |-> [username |-> username, nombre |-> nombre, rol |-> rol,
                             password |-> password, admin_id |-> admin_id]]

CrearUsuarioForm(c, username, nombre, rol, password, confirm_password, falla) ==
    /\ EnUsuarios(c)
    /\ IF falla /\ ValidarCrear(username, nombre, password, confirm_password) = SinMensaje
       THEN /\ salida' = SalidaFalla("crear", MsgCrearErrorMotor, "select", None)
            /\ UNCHANGED <<pc, pendiente>>
       ELSE \E r \in {formulario_crear(tablas, usuarios, usuario[c].id,
                                       username, nombre, rol, password, confirm_password)} :
            /\ r.pendiente # None => CabeLog
            /\ salida' = Salida("crear", r.mensaje)
            /\ pendiente' = [pendiente EXCEPT ![c] = r.pendiente]
            /\ pc' = [pc EXCEPT ![c] = IF r.pendiente = None THEN "idle" ELSE "crear_insert"]
    /\ UNCHANGED <<db, cache_init, sesion, reportado>>

\* The row crear_usuario_sistema inserts (permisos and the contact fields are
\* left empty by the submissions considered here).
NuevaFila(us, datos) ==
    [id |-> Len(us) + 1, username |-> datos.username, nombre |-> datos.nombre,
     rol |-> datos.rol, password |-> hash_password(datos.password), permisos |-> "",
     creado_por |-> datos.admin_id, ultimo_acceso |-> 0, activo |-> TRUE]

\* crear_usuario_sistema, the INSERT into usuarios and its commit: the table
\* afterwards, or the text of the IntegrityError the except branch returns,
\* in which case the connection keeps the write lock.
crear_usuario_insert(us, datos) ==
    LET fila == NuevaFila(us, datos)
        tras == InsertarUsuario(us, fila)
    IN  IF tras # us
        THEN [mensaje |-> SinMensaje, usuarios |-> tras, bloqueo |-> FALSE]
        ELSE [mensaje |-> IF ViolaUnique(us, fila.username) THEN MsgCrearError
                          ELSE MsgCrearErrorFK,
              usuarios |-> us, bloqueo |-> TRUE]

CrearUsuarioInsert(c, falla) ==
    /\ pc[c] = "crear_insert"
    /\ \E datos \in {pendiente[c]} :
       IF EscrituraFalla(falla)
       THEN /\ salida' = SalidaFalla("crear", MsgCrearErrorMotor, "escritura", None)
            /\ pc' = [pc EXCEPT ![c] = "idle"]
            /\ pendiente' = [pendiente EXCEPT ![c] = None]
            /\ UNCHANGED <<usuarios, bloqueo>>
       ELSE \E r \in {crear_usuario_insert(usuarios, datos)} :
            /\ usuarios' = r.usuarios
            /\ bloqueo' = r.bloqueo
            /\ salida' = Salida("crear_insert", r.mensaje)
            /\ pc' = [pc EXCEPT ![c] = IF r.bloqueo THEN "idle" ELSE "crear_log"]
            /\ pendiente' = [pendiente EXCEPT ![c] =
                  IF r.bloqueo THEN None
                  ELSE [username |-> datos.username, nombre |-> datos.nombre,
                        rol |-> datos.rol, password |-> datos.password,
                        admin_id |-> datos.admin_id, id |-> Len(r.usuarios)]]
    /\ UNCHANGED <<tablas, productos, logs_sistema, cache_init, sesion, reportado>>

\* crear_usuario_sistema, the INSERT of the CREACION row and its commit,
\* after the commit of the new user.
crear_usuario_log(logs, datos) ==
    Append(logs, LogRow(datos.admin_id, "USUARIOS", "CREACION",
                        "Usuario creado: " \o datos.username))

CrearUsuarioLog(c, falla) ==
    /\ pc[c] = "crear_log"
    /\ \E datos \in {pendiente[c]} :
       IF EscrituraFalla(falla)
       THEN /\ salida' = SalidaFalla("crear", MsgCrearErrorMotor, "log", None)
            /\ UNCHANGED <<logs_sistema, reportado>>
       ELSE /\ CabeLog
            /\ logs_sistema' = crear_usuario_log(logs_sistema, datos)
            /\ salida' = Salida("crear_log", MsgCrearOk)
            /\ reportado' = Reportar(reportado,
                               [id |-> datos.id, origen |-> "crear",
                                username |-> datos.username, rol |-> datos.rol,
                                password |-> datos.password, anterior |-> ""])
    /\ pc' = [pc EXCEPT ![c] = "idle"]
    /\ pendiente' = [pendiente EXCEPT ![c] = None]
    /\ UNCHANGED <<tablas, usuarios, productos, bloqueo, cache_init, sesion>>

\* -------------------------------------------------------- password change
\* The validations of the password form, in the order of the elif chain.
ValidarCambiar(password_actual, nueva_password, confirmar_password) ==
    IF password_actual = "" \/ nueva_password = "" \/ confirmar_password = ""
    THEN MsgCambiarCampos
    ELSE IF nueva_password # confirmar_password THEN MsgCambiarNoCoinciden
    ELSE IF Len(nueva_password) < MinPasswordLen THEN MsgCambiarCorta
    ELSE SinMensaje

\* Variant of PasswordActualCorrecta: only the presence of the row is tested.
PasswordActualSinComparar(us, id, password_actual) ==
    \E i \in DOMAIN us : us[i].id = id

\* SELECT password FROM usuarios WHERE id = ?, and the comparison
\* resultado and hash_password(password_actual) == resultado[0].
PasswordActualCorrecta(us, id, password_actual) ==
    /\ \E i \in DOMAIN us : us[i].id = id
    /\ LET i == CHOOSE j \in DOMAIN us : us[j].id = id
       IN  hash_password(password_actual) = us[i].password

\* The form of tab "Configuración" of mostrar_gestion_usuarios submitted by
\* user id: the validations, the SELECT of the stored digest and the
\* comparison. The text shown and the UPDATE left to execute (None when
\* there is none); without the schema the SELECT raises and nothing catches it.
formulario_cambiar(hay_tablas, us, id, password_actual, nueva_password, confirmar_password) ==
    LET rechazo == ValidarCambiar(password_actual, nueva_password, confirmar_password)
    IN  IF rechazo # SinMensaje THEN [mensaje |-> rechazo, pendiente |-> None]
        ELSE IF ~hay_tablas
        THEN [mensaje |-> ExcepcionSinTabla("usuarios"), pendiente |-> None]
        ELSE IF PasswordActualCorrecta(us, id, password_actual)
        THEN [mensaje |-> SinMensaje,
              pendiente |-> [id |-> id, password_actual |-> password_actual,
                             nueva_password |-> nueva_password]]
        ELSE [mensaje |-> MsgCambiarIncorrecta, pendiente |-> None]

CambiarPasswordForm(c, password_actual, nueva_password, confirmar_password, falla) ==
    /\ EnUsuarios(c)
    /\ IF falla /\ ValidarCambiar(password_actual, nueva_password, confirmar_password) = SinMensaje
       THEN /\ salida' = SalidaFalla("cambiar", MsgExcepcion, "select", None)
            /\ UNCHANGED <<pc, pendiente>>
       ELSE \E r \in {formulario_cambiar(tablas, usuarios, usuario[c].id,
                                         password_actual, nueva_password, confirmar_password)} :
            /\ r.pendiente # None => CabeLog
            /\ salida' = Salida("cambiar", r.mensaje)
            /\ pendiente' = [pendiente EXCEPT ![c] = r.pendiente]
            /\ pc' = [pc EXCEPT ![c] = IF r.pendiente = None THEN "idle" ELSE "cambiar_update"]
    /\ UNCHANGED <<db, cache_init, sesion, reportado>>

\* UPDATE usuarios SET password = ? WHERE id = ?
ActualizarPassword(us, id, new_hash) ==
    [i \in DOMAIN us |-> IF us[i].id = id THEN [us[i] EXCEPT !.password = new_hash] ELSE us[i]]

\* Variant of cambiar_password_update: the UPDATE without its WHERE clause.
cambiar_password_update_sin_where(us, datos) ==
    [i \in DOMAIN us |-> [us[i] EXCEPT !.password = hash_password(datos.nueva_password)]]

\* The password form, the UPDATE of the digest and its commit.
cambiar_password_update(us, datos) ==
    ActualizarPassword(us, datos.id, hash_password(datos.nueva_password))

CambiarPasswordUpdate(c, falla) ==
    /\ pc[c] = "cambiar_update"
    /\ \E datos \in {pendiente[c]} :
       IF EscrituraFalla(falla)
       THEN /\ salida' = SalidaFalla("cambiar", MsgExcepcion, "escritura", None)
            /\ pc' = [pc EXCEPT ![c] = "idle"]
            /\ pendiente' = [pendiente EXCEPT ![c] = None]
            /\ UNCHANGED usuarios
       ELSE /\ usuarios' = cambiar_password_update(usuarios, datos)
            /\ salida' = Salida("cambiar_update", SinMensaje)
            /\ pc' = [pc EXCEPT ![c] = "cambiar_log"]
            /\ UNCHANGED pendiente
    /\ UNCHANGED <<tablas, productos, logs_sistema, bloqueo, cache_init, sesion, reportado>>

\* The password form, the INSERT of the CAMBIO_PASSWORD row and its commit,
\* after the commit of the new digest.
cambiar_password_log(logs, datos) ==
    Append(logs, LogRow(datos.id, "USUARIOS", "CAMBIO_PASSWORD", "Usuario cambió su contraseña"))

\* The username and the role of the row with this id ("" when there is none).
ColumnaDe(us, id, columna) ==
    IF \E i \in DOMAIN us : us[i].id = id
    THEN us[CHOOSE i \in DOMAIN us : us[i].id = id][columna]
    ELSE ""

CambiarPasswordLog(c, falla) ==
    /\ pc[c] = "cambiar_log"
    /\ \E datos \in {pendiente[c]} :
       IF EscrituraFalla(falla)
       THEN /\ salida' = SalidaFalla("cambiar", MsgExcepcion, "log", None)
            /\ UNCHANGED <<logs_sistema, reportado>>
       ELSE /\ CabeLog
            /\ logs_sistema' = cambiar_password_log(logs_sistema, datos)
            /\ salida' = Salida("cambiar_log", MsgCambiarOk)
            /\ reportado' = Reportar(reportado,
                               [id |-> datos.id, origen |-> "cambiar",
                                username |-> ColumnaDe(usuarios, datos.id, "username"),
                                rol |-> ColumnaDe(usuarios, datos.id, "rol"),
                                password |-> datos.nueva_password,
                                anterior |-> datos.password_actual])
    /\ pc' = [pc EXCEPT ![c] = "idle"]
    /\ pendiente' = [pendiente EXCEPT ![c] = None]
    /\ UNCHANGED <<tablas, usuarios, productos, bloqueo, cache_init, sesion>>

\* ------------------------------------------------------- re-initialization
\* Button "Reinicializar BD": deletes the session flag, clears
\* st.cache_resource and calls st.rerun(); init_database is executed by the
\* dashboard tab of the run that follows.
ReinicializarBD(c) ==
    /\ EnUsuarios(c)
    /\ db_initialized' = [db_initialized EXCEPT ![c] = FALSE]
    /\ cache_init' = FALSE
    /\ pc' = [pc EXCEPT ![c] = "rerun"]
    /\ salida' = Salida("reinicializar", MsgReinicializada)
    /\ UNCHANGED <<db, usuario, logout_trigger, pendiente, reportado>>

\* ------------------------------------------------------- product creation
\* codigo TEXT UNIQUE NOT NULL of table productos.
ViolaUniqueCodigo(ps, codigo) == \E i \in DOMAIN ps : ps[i].codigo = codigo

\* The characters str.strip() removes, those for which str.isspace() holds:
\* space, tab, line feed, form feed, carriage return, then U+000B, U+001C to
\* U+001F, U+0085, U+00A0 and U+1680.  The others (U+2000 to U+200A, U+2028,
\* U+2029, U+202F, U+205F, U+3000) cannot be written in a string here, so no
\* text of the model holds them.
Espacio ==
    {" ", "\t", "\n", "\f", "\r",
     "", "", "", "", "", "", " ", " "}

\* The strings of n such characters.
RECURSIVE Blancos(_)
Blancos(n) == IF n = 0 THEN {""} ELSE {b \o e : b \in Blancos(n - 1), e \in Espacio}

\* Whether codigo.strip() is the empty string.
strip_vacio(codigo) == codigo \in Blancos(Len(codigo))

\* The form "Registrar Producto", the entry 'codigo' of datos_producto: the
\* text as typed, unstripped, or None when it is blank.  An optional text is
\* a sequence of at most one string, None being the empty one.
codigo_formulario(codigo) == IF strip_vacio(codigo) THEN <<>> ELSE <<codigo>>

\* datetime.now().strftime('%Y%m%d') and uuid.uuid4().hex[:6].upper(): a day,
\* and the values the six hexadecimal digits take here.
FechaHoy == "20240115"
Uuid4Hex == {"0A1B2C", "3D4E5F", "6A7B8C"}

\* crear_producto_sistema, the codes it may generate: PROD-<day>-<digits>,
\* built without looking at the table, so that the code may repeat one of
\* its rows.
CodigoGenerado == {"PROD-" \o FechaHoy \o "-" \o h : h \in Uuid4Hex}

\* crear_producto_sistema, the code of the row: generated when the entry is
\* None or empty.
codigo_producto(dato, generado) ==
    IF dato = <<>> THEN generado ELSE IF dato[1] = "" THEN generado ELSE dato[1]

\* The bound on the model for the rows of productos.
CabeProducto == Len(productos) < MaxProductos

\* The form "Registrar Producto" of the inventory tab and
\* crear_producto_sistema up to its first commit: the check of the required
\* fields, the INSERT into productos (and the one into
\* movimientos_inventario).  The text shown, the table afterwards, the INSERT
\* into logs_sistema left to execute, and whether the connection is
\* abandoned holding the write lock.
crear_producto_insert(ps, usuario_id, codigo, nombre, generado) ==
    LET cod == codigo_producto(codigo_formulario(codigo), generado)
    IN  IF nombre = ""
        THEN [mensaje |-> MsgProductoCampos, productos |-> ps, pendiente |-> None,
              bloqueo |-> FALSE]
        ELSE IF ViolaUniqueCodigo(ps, cod)
        THEN [mensaje |-> MsgProductoError, productos |-> ps, pendiente |-> None,
              bloqueo |-> TRUE]
        ELSE [mensaje |-> SinMensaje,
              productos |-> Append(ps, [codigo |-> cod, nombre |-> nombre,
                                        usuario_creador |-> usuario_id]),
              pendiente |-> [usuario_id |-> usuario_id, nombre |-> nombre],
              bloqueo |-> FALSE]

CrearProducto(c, codigo, nombre, falla) ==
    /\ EnMenu(c)
    /\ IF nombre # "" /\ EscrituraFalla(falla)
       THEN /\ salida' = SalidaFalla("producto", MsgCrearErrorMotor, "escritura", None)
            /\ UNCHANGED <<productos, bloqueo, pc, pendiente>>
       ELSE \E generado \in CodigoGenerado :
            \E r \in {crear_producto_insert(productos, usuario[c].id, codigo, nombre,
                                            generado)} :
            /\ r.pendiente # None => CabeLog /\ CabeProducto
            /\ productos' = r.productos
            /\ bloqueo' = (bloqueo \/ r.bloqueo)
            /\ salida' = Salida("producto", r.mensaje)
            /\ pendiente' = [pendiente EXCEPT ![c] = r.pendiente]
            /\ pc' = [pc EXCEPT ![c] = IF r.pendiente = None THEN "idle" ELSE "producto_log"]
    /\ UNCHANGED <<tablas, usuarios, logs_sistema, cache_init, sesion, reportado>>

\* crear_producto_sistema, the INSERT of its log row and the commit.
crear_producto_log(logs, datos) ==
    Append(logs, LogRow(datos.usuario_id, "PRODUCTOS", "CREACION",
                        "Producto: " \o datos.nombre))

CrearProductoLog(c, falla) ==
    /\ pc[c] = "producto_log"
    /\ \E datos \in {pendiente[c]} :
       IF EscrituraFalla(falla)
       THEN /\ salida' = SalidaFalla("producto", MsgCrearErrorMotor, "log", None)
            /\ UNCHANGED logs_sistema
       ELSE /\ CabeLog
            /\ logs_sistema' = crear_producto_log(logs_sistema, datos)
            /\ salida' = Salida("producto_log", MsgProductoOk)
    /\ pc' = [pc EXCEPT ![c] = "idle"]
    /\ pendiente' = [pendiente EXCEPT ![c] = None]
    /\ UNCHANGED <<tablas, usuarios, productos, bloqueo, cache_init, sesion, reportado>>

\* -------------------------------------------------------- the interpreter
\* The cyclic garbage collector frees the connection an except branch
\* abandoned: sqlite3 closes it, its transaction is rolled back and the
\* write lock is released.  When it runs is not determined by the program.
RecolectarBasura ==
    /\ bloqueo
    /\ bloqueo' = FALSE
    /\ salida' = Salida("gc", SinMensaje)
    /\ UNCHANGED <<tablas, usuarios, productos, logs_sistema, cache_init, sesion, pc,
                   pendiente, reportado>>

\* ------------------------------------------------------------ environment
\* No handler writes the column activo; a row is deactivated by an UPDATE
\* issued on the database file from outside the application.
DesactivarUsuario(i) ==
    /\ i \in DOMAIN usuarios
    /\ usuarios[i].activo
    /\ ~bloqueo
    /\ usuarios' = [usuarios EXCEPT ![i].activo = FALSE]
    /\ salida' = Salida("desactivar", SinMensaje)
    /\ UNCHANGED <<tablas, productos, logs_sistema, bloqueo, cache_init, sesion, pc,
                   pendiente, reportado>>

\* ------------------------------------------------------------------- menu
\* The roles the creation form offers, and two values it does not offer.
RolesSelectbox == {"admin", "usuario", "visor", "produccion", "ventas"}
RolesAjenos == {"Admin", "gerente"}

\* Submissions of the creation form that differ in the role only.
EntradasCrearMenu ==
    {[username |-> "jdoe", nombre |-> "Juan", rol |-> r, password |-> "Baker99",
      confirm_password |-> "Baker99"] : r \in RolesSelectbox}

\* Variant of opciones_menu: the branch of 'produccion' left out.
opciones_menu_sin_produccion(rol) ==
    IF rol = "admin"
    THEN <<"dashboard", "inventario", "usuarios", "ventas", "reportes", "configuracion">>
    ELSE IF rol = "ventas"
    THEN <<"dashboard", "inventario", "ventas", "reportes">>
    ELSE <<"dashboard", "inventario">>

\* mostrar_menu_principal, the if/elif chain: the modules of the tabs, in order.
opciones_menu(rol) ==
    IF rol = "admin"
    THEN <<"dashboard", "inventario", "usuarios", "ventas", "reportes", "configuracion">>
    ELSE IF rol = "ventas"
    THEN <<"dashboard", "inventario", "ventas", "reportes">>
    ELSE IF rol = "produccion"
    THEN <<"dashboard", "inventario", "reportes">>
    ELSE <<"dashboard", "inventario">>

\* mostrar_menu_principal, the loop over the tabs: whether the tab of modulo
\* shows the module (TRUE) or the warning "Acceso restringido" (FALSE).
acceso_modulo(rol, modulo) ==
    IF modulo = "dashboard" \/ modulo = "inventario" THEN TRUE
    ELSE IF modulo = "usuarios" THEN rol = "admin"
    ELSE IF modulo = "ventas" THEN rol \in {"admin", "ventas"}
    ELSE IF modulo = "reportes" THEN rol \in {"admin", "ventas", "produccion"}
    ELSE IF modulo = "configuracion" THEN rol = "admin"
    ELSE FALSE

AccesoA(rol) == [modulo \in {"dashboard", "inventario", "usuarios", "ventas",
                             "reportes", "configuracion"} |-> acceso_modulo(rol, modulo)]

\* What mostrar_menu_principal puts on the page for rol: the tabs and, of
\* these, the ones whose module is shown.
mostrar_menu_principal(rol) ==
    [rol |-> rol,
     tabs |-> opciones_menu(rol),
     modulos |-> SelectSeq(opciones_menu(rol), LAMBDA m : AccesoA(rol)[m])]

\* A run of main() in a session that is logged in and has pressed nothing:
\* the bar and the menu are rendered again.
MostrarMenuPrincipal(c) ==
    /\ EnMenu(c)
    /\ salida' = Salida("menu", mostrar_menu_principal(usuario[c].rol))
    /\ UNCHANGED <<db, cache_init, sesion, pc, pendiente, reportado>>

\* The column rol has no CHECK constraint; a row other than the bootstrap
\* one gets a role outside the selectbox by an UPDATE issued on the database
\* file from outside the application.
RolAjeno(i, rol) ==
    /\ i \in DOMAIN usuarios
    /\ i > 1
    /\ usuarios[i].rol \in RolesSelectbox
    /\ usuarios' = [usuarios EXCEPT ![i].rol = rol]
    /\ salida' = Salida("rol_ajeno", SinMensaje)
    /\ UNCHANGED <<tablas, productos, logs_sistema, bloqueo, cache_init, sesion, pc, pendiente, reportado>>
\* ------------------------------------------- a whole call under a fault
\* The statements of autenticar_usuario at which sqlite3 may raise for a
\* reason of the environment: get_db_connection, the SELECT, the UPDATE of
\* ultimo_acceso (or its commit) and the INSERT into logs_sistema (or its
\* commit).
FallasAutenticar == {"conexion", "select", "update", "log"}

\* Variant of autenticar_usuario_falla: the UPDATE of ultimo_acceso wrapped
\* in a try/except of its own, so that a fault there is ignored.
autenticar_usuario_update_opcional(hay_tablas, us, logs, username, password, falla, ahora) ==
    LET filas == FilasAutenticadas(us, username, password)
        sin == [ret |-> None, usuarios |-> us, logs |-> logs]
    IN  IF falla = "" THEN autenticar_usuario(hay_tablas, us, logs, username, password, ahora)
        ELSE IF falla \in {"conexion", "select"} \/ ~hay_tablas THEN sin
        ELSE IF filas = {}
        THEN IF falla \in {"log", "bloqueo"} THEN sin
             ELSE autenticar_usuario(hay_tablas, us, logs, username, password, ahora)
        ELSE LET i == CHOOSE j \in filas : \A k \in filas : j <= k
             IN  IF falla = "update"
                 THEN [ret |-> Identidad(us[i]), usuarios |-> us,
                       logs |-> Append(logs, FilaLoginExitoso(us[i].id, username))]
                 ELSE IF falla = "bloqueo" THEN sin
                 ELSE [ret |-> None, usuarios |-> TocarUltimoAcceso(us, us[i].id, ahora),
                       logs |-> logs]

\* autenticar_usuario run without interruption when sqlite3 raises at falla
\* ("" when it does not): the except branch returns None whatever was
\* executed before.  A fault at the UPDATE leaves nothing written; a fault at
\* the INSERT of LOGIN_EXITOSO comes after the commit of the UPDATE.  Without
\* a matching row there is no UPDATE to fail.  Under "bloqueo" the write lock
\* is taken for the whole call: the SELECT runs and the first write raises.
autenticar_usuario_falla(hay_tablas, us, logs, username, password, falla, ahora) ==
    LET filas == FilasAutenticadas(us, username, password)
        sin == [ret |-> None, usuarios |-> us, logs |-> logs]
    IN  IF falla = "" THEN autenticar_usuario(hay_tablas, us, logs, username, password, ahora)
        ELSE IF falla \in {"conexion", "select"} \/ ~hay_tablas THEN sin
        ELSE IF filas = {}
        THEN IF falla \in {"log", "bloqueo"} THEN sin
             ELSE autenticar_usuario(hay_tablas, us, logs, username, password, ahora)
        ELSE IF falla \in {"update", "bloqueo"} THEN sin
        ELSE [ret |-> None, usuarios |-> TocarUltimoAcceso(us, us[CHOOSE j \in filas : TRUE].id, ahora),
              logs |-> logs]

\* Variant of mostrar_login_falla: autenticar_usuario without its
\* try/except, so that the exception of sqlite3 reaches the page.
mostrar_login_sin_except(hay_tablas, us, logs, username, password, falla, ahora) ==
    IF username = "" \/ password = ""
    THEN [usuario |-> None, mensaje |-> MsgLoginCampos, usuarios |-> us, logs |-> logs]
    ELSE LET r == autenticar_usuario_falla(hay_tablas, us, logs, username, password, falla, ahora)
         IN  [usuario |-> r.ret,
              mensaje |-> IF r.ret # None THEN MsgLoginOk
                          ELSE IF r.logs = logs THEN MsgExcepcion ELSE MsgLoginIncorrecto,
              usuarios |-> r.usuarios, logs |-> r.logs]

\* The submit branch of mostrar_login over autenticar_usuario_falla.
mostrar_login_falla(hay_tablas, us, logs, username, password, falla, ahora) ==
    IF username = "" \/ password = ""
    THEN [usuario |-> None, mensaje |-> MsgLoginCampos, usuarios |-> us, logs |-> logs]
    ELSE LET r == autenticar_usuario_falla(hay_tablas, us, logs, username, password, falla, ahora)
         IN  [usuario |-> r.ret,
              mensaje |-> IF r.ret # None THEN MsgLoginOk ELSE MsgLoginIncorrecto,
              usuarios |-> r.usuarios, logs |-> r.logs]

\* ---------------------------------------------------------- specifications
\* The steps every specification has: the continuation of a login and the
\* run that follows a rerun, without a fault of the environment.
PasosLogin ==
    \/ \E c \in Conexiones : AutenticarUpdate(c, FALSE)
    \/ \E c \in Conexiones : AutenticarLog(c, FALSE)
    \/ \E c \in Conexiones : AutenticarFallido(c, FALSE)
    \/ \E c \in Conexiones : MostrarDashboard(c)
    \/ \E c \in Conexiones : ArranqueSelect(c)

PasosLogout ==
    \/ \E c \in Conexiones : LogoutBoton(c)
    \/ \E c \in Conexiones : Logout(c, FALSE)

PasosCrear ==
    \/ \E c \in Conexiones : CrearUsuarioInsert(c, FALSE)
    \/ \E c \in Conexiones : CrearUsuarioLog(c, FALSE)

PasosCambiar ==
    \/ \E c \in Conexiones : CambiarPasswordUpdate(c, FALSE)
    \/ \E c \in Conexiones : CambiarPasswordLog(c, FALSE)

\* The submissions of the two forms that pass the validations, the
\* creations with one password.
EntradasCrearValidas ==
    {e \in EntradasCrear :
        /\ ValidarCrear(e.username, e.nombre, e.password, e.confirm_password) = SinMensaje
        /\ e.password = "Baker99"}
EntradasCambiarValidas ==
    {e \in EntradasCambiar :
        ValidarCambiar(e.password_actual, e.nueva_password, e.confirmar_password) = SinMensaje}

\* The handlers of the application on the submissions that reach the database.
Next ==
    \/ \E c \in Conexiones, e \in EntradasLogin : MostrarLogin(c, e.username, e.password, FALSE)
    \/ PasosLogin
    \/ PasosLogout
    \/ \E c \in Conexiones, e \in EntradasCrearValidas :
          CrearUsuarioForm(c, e.username, e.nombre, e.rol, e.password, e.confirm_password, FALSE)
    \/ PasosCrear
    \/ \E c \in Conexiones, e \in EntradasCambiarValidas :
          CambiarPasswordForm(c, e.password_actual, e.nueva_password, e.confirmar_password, FALSE)
    \/ PasosCambiar
    \/ \E c \in Conexiones : ReinicializarBD(c)
    \/ RecolectarBasura

Spec == Init /\ [][Next]_vars

\* The logins of the administrator and of the user the forms create.
EntradasLoginValidas ==
    {[username |-> "admin", password |-> "Admin2024!"],
     [username |-> "Admin", password |-> "Baker99"]}

\* The two forms on every submission, the rejected ones included.
NextFormularios ==
    \/ \E c \in Conexiones, e \in EntradasLoginValidas :
          MostrarLogin(c, e.username, e.password, FALSE)
    \/ PasosLogin
    \/ \E c \in Conexiones, e \in EntradasCrear :
          CrearUsuarioForm(c, e.username, e.nombre, e.rol, e.password, e.confirm_password, FALSE)
    \/ PasosCrear
    \/ \E c \in Conexiones, e \in EntradasCambiar :
          CambiarPasswordForm(c, e.password_actual, e.nueva_password, e.confirmar_password, FALSE)
    \/ PasosCambiar
    \/ RecolectarBasura

SpecFormularios == Init /\ [][NextFormularios]_vars

\* One creation and one password change; what the environment is given.
EntradasCrearFalla ==
    {[username |-> "Admin", nombre |-> "Juan", rol |-> "produccion",
      password |-> "Baker99", confirm_password |-> "Baker99"]}
EntradasCambiarFalla ==
    {[password_actual |-> "Admin2024!", nueva_password |-> "Baker99",
      confirmar_password |-> "Baker99"]}

\* The application on a database whose rows may be deactivated from outside.
NextEntorno ==
    \/ \E c \in Conexiones, e \in EntradasLogin : MostrarLogin(c, e.username, e.password, FALSE)
    \/ PasosLogin
    \/ PasosLogout
    \/ \E c \in Conexiones, e \in EntradasCrearFalla :
          CrearUsuarioForm(c, e.username, e.nombre, e.rol, e.password, e.confirm_password, FALSE)
    \/ PasosCrear
    \/ \E c \in Conexiones, e \in EntradasCambiarValidas :
          CambiarPasswordForm(c, e.password_actual, e.nueva_password, e.confirmar_password, FALSE)
    \/ PasosCambiar
    \/ RecolectarBasura
    \/ \E i \in DOMAIN usuarios : DesactivarUsuario(i)

SpecEntorno == Init /\ [][NextEntorno]_vars

\* Creations under a username that differs from 'admin' in case and under
\* 'admin' itself.
EntradasCrearArranque ==
    {[username |-> u, nombre |-> "Juan", rol |-> "produccion",
      password |-> "Baker99", confirm_password |-> "Baker99"] : u \in {"admin", "Admin"}}

\* init_database run again: logins, creations, a password change and the
\* button "Reinicializar BD", after which the next run executes it.
NextArranque ==
    \/ \E c \in Conexiones, e \in EntradasLoginValidas :
          MostrarLogin(c, e.username, e.password, FALSE)
    \/ PasosLogin
    \/ \E c \in Conexiones, e \in EntradasCrearArranque :
          CrearUsuarioForm(c, e.username, e.nombre, e.rol, e.password, e.confirm_password, FALSE)
    \/ PasosCrear
    \/ \E c \in Conexiones, e \in EntradasCambiarFalla :
          CambiarPasswordForm(c, e.password_actual, e.nueva_password, e.confirmar_password, FALSE)
    \/ PasosCambiar
    \/ \E c \in Conexiones : ReinicializarBD(c)
    \/ RecolectarBasura

SpecArranque == Init /\ [][NextArranque]_vars

\* The logins of the administrator and of the user the menu is shown to.
EntradasLoginMenu ==
    {[username |-> "admin", password |-> "Admin2024!"],
     [username |-> "jdoe", password |-> "Baker99"]}

\* The product form submitted empty and with a code of the user's.
EntradasProductoMenu == {[codigo |-> "", nombre |-> ""], [codigo |-> "P1", nombre |-> "Pan"]}

\* Login, creation of users of every role of the selectbox, the menu and
\* the product form, on a database whose column rol may be written from
\* outside.
NextMenu ==
    \/ \E c \in Conexiones, e \in EntradasLoginMenu : MostrarLogin(c, e.username, e.password, FALSE)
    \/ PasosLogin
    \/ \E c \in Conexiones, e \in EntradasCrearMenu :
          CrearUsuarioForm(c, e.username, e.nombre, e.rol, e.password, e.confirm_password, FALSE)
    \/ PasosCrear
    \/ \E c \in Conexiones : MostrarMenuPrincipal(c)
    \/ \E c \in Conexiones, e \in EntradasProductoMenu :
          CrearProducto(c, e.codigo, e.nombre, FALSE)
    \/ \E c \in Conexiones : CrearProductoLog(c, FALSE)
    \/ RecolectarBasura
    \/ \E i \in DOMAIN usuarios, rol \in RolesAjenos : RolAjeno(i, rol)

SpecMenu == Init /\ [][NextMenu]_vars

\* The submissions of the login form tried under a fault.
EntradasLoginFalla ==
    [username : {"admin"}, password : {"Admin2024!", "Baker99"}]

\* Login, logout, one creation and one password change, each statement of
\* theirs with and without a storage fault.
NextFallas ==
    \/ \E c \in Conexiones, e \in EntradasLoginFalla, falla \in BOOLEAN :
          MostrarLogin(c, e.username, e.password, falla)
    \/ \E c \in Conexiones, falla \in BOOLEAN : AutenticarUpdate(c, falla)
    \/ \E c \in Conexiones, falla \in BOOLEAN : AutenticarLog(c, falla)
    \/ \E c \in Conexiones, falla \in BOOLEAN : AutenticarFallido(c, falla)
    \/ \E c \in Conexiones : MostrarDashboard(c)
    \/ \E c \in Conexiones : ArranqueSelect(c)
    \/ \E c \in Conexiones : LogoutBoton(c)
    \/ \E c \in Conexiones, falla \in BOOLEAN : Logout(c, falla)
    \/ \E c \in Conexiones, e \in EntradasCrearFalla, falla \in BOOLEAN :
          CrearUsuarioForm(c, e.username, e.nombre, e.rol, e.password, e.confirm_password, falla)
    \/ \E c \in Conexiones, falla \in BOOLEAN : CrearUsuarioInsert(c, falla)
    \/ \E c \in Conexiones, falla \in BOOLEAN : CrearUsuarioLog(c, falla)
    \/ \E c \in Conexiones, e \in EntradasCambiarFalla, falla \in BOOLEAN :
          CambiarPasswordForm(c, e.password_actual, e.nueva_password, e.confirmar_password, falla)
    \/ \E c \in Conexiones, falla \in BOOLEAN : CambiarPasswordUpdate(c, falla)
    \/ \E c \in Conexiones, falla \in BOOLEAN : CambiarPasswordLog(c, falla)
    \/ RecolectarBasura

SpecFallas == Init /\ [][NextFallas]_vars

\* Creation of users by more than one administrator: a second administrator
\* and a third account, and the logins of the three accounts.
EntradasCreadores ==
    [username : {"Admin", "jdoe"}, nombre : {"Juan"}, rol : {"admin", "produccion"},
     password : {"Baker99"}, confirm_password : {"Baker99"}]
EntradasLoginCreadores ==
    {[username |-> "admin", password |-> "Admin2024!"],
     [username |-> "Admin", password |-> "Baker99"],
     [username |-> "jdoe", password |-> "Baker99"]}

NextCreadores ==
    \/ \E c \in Conexiones, e \in EntradasLoginCreadores :
          MostrarLogin(c, e.username, e.password, FALSE)
    \/ PasosLogin
    \/ PasosLogout
    \/ \E c \in Conexiones, e \in EntradasCreadores :
          CrearUsuarioForm(c, e.username, e.nombre, e.rol, e.password, e.confirm_password, FALSE)
    \/ \E c \in Conexiones, falla \in BOOLEAN : CrearUsuarioInsert(c, falla)
    \/ \E c \in Conexiones, falla \in BOOLEAN : CrearUsuarioLog(c, falla)
    \/ RecolectarBasura

SpecCreadores == Init /\ [][NextCreadores]_vars

\* The logins of the administrator under either password.
EntradasLoginAdmin == [username : {"admin"}, password : {"Admin2024!", "Baker99"}]

\* Login, password changes and the product form of the inventory tab.
NextInventario ==
    \/ \E c \in Conexiones, e \in EntradasLoginAdmin :
          MostrarLogin(c, e.username, e.password, FALSE)
    \/ PasosLogin
    \/ \E c \in Conexiones, e \in EntradasCambiarValidas :
          CambiarPasswordForm(c, e.password_actual, e.nueva_password, e.confirmar_password, FALSE)
    \/ PasosCambiar
    \/ \E c \in Conexiones, e \in EntradasProducto : CrearProducto(c, e.codigo, e.nombre, FALSE)
    \/ \E c \in Conexiones : CrearProductoLog(c, FALSE)
    \/ RecolectarBasura

SpecInventario == Init /\ [][NextInventario]_vars

\* ------------------------------------------------------------- properties
\* A session gets behind the login page only by a login, which needs the
\* schema, and no statement of the program drops a table: every step of a
\* handler behind the login runs on a file that has the schema.
EsquemaTrasLogin ==
    \A c \in Conexiones : (usuario[c] # None \/ pc[c] # "idle") => tablas

\* A value of CURRENT_TIMESTAMP, for the calls of which only the value
\* returned, the text shown or the log rows are read: none of them depends
\* on the clock.
UnSegundo == UltimoSello(usuarios) + 1

\* What a caller of the login form can observe of a submission.
Observado(username, password) ==
    LET r == mostrar_login(tablas, usuarios, logs_sistema, username, password, UnSegundo)
    IN  [usuario |-> r.usuario, mensaje |-> r.mensaje]

\* The fault a whole call of autenticar_usuario meets in the current state.
Bloqueado == IF bloqueo THEN "bloqueo" ELSE ""

\* The value autenticar_usuario would return in the current state.
Autentica(username, password) ==
    autenticar_usuario_falla(tablas, usuarios, logs_sistema, username, password, Bloqueado,
                             UnSegundo).ret

CamposIdentidad == {"id", "username", "nombre", "rol", "permisos"}

\* The passwords the login form is given.
Passwords == {e.password : e \in EntradasLogin} \ {""}

\* C1: a user whose creation reported success, who is still active and whose
\* password has not been changed since, authenticates with the username and
\* password given at creation, and the identity returned carries the id, the
\* username and the role stored then.
C1_CrearLuegoAutenticar ==
    \A g \in reportado :
        (g.origen = "crear" /\ usuarios[g.id].activo) =>
            LET ret == Autentica(g.username, g.password)
            IN  /\ ret # None
                /\ ret.id = g.id
                /\ ret.username = g.username
                /\ ret.rol = g.rol

\* C2: for a row whose activo is false every login with its username is
\* refused, whatever the password, the one whose digest is stored included.
C2_InactivoNuncaAutentica ==
    \A i \in DOMAIN usuarios :
        ~usuarios[i].activo =>
            \A e \in EntradasLogin :
                e.username = usuarios[i].username =>
                    /\ Autentica(e.username, e.password) = None
                    /\ Observado(e.username, e.password).usuario = None
                    /\ FilasAutenticadas(usuarios, e.username, e.password) = {}

\* C2 happens: a user who logged in while active, and whose password was never
\* changed, is inactive, and the login just attempted under that username
\* with that password was refused and logged as failed.
C2_Testigo ==
    /\ salida = Salida("login_fallido", MsgLoginIncorrecto)
    /\ \A k \in DOMAIN logs_sistema : logs_sistema[k].accion # "CAMBIO_PASSWORD"
    /\ \E i \in DOMAIN usuarios :
          /\ ~usuarios[i].activo
          /\ usuarios[i].ultimo_acceso > 0
          /\ usuarios[i].password = hash_password("Admin2024!")
          /\ logs_sistema[Len(logs_sistema)] = FilaLoginFallido(usuarios[i].username)

\* Why a submission with both fields filled in is not a login: no row has the
\* username, the row is inactive, or the digest differs ("" when it is a login).
Causa(username, password) ==
    IF \A i \in DOMAIN usuarios : usuarios[i].username # username THEN "desconocido"
    ELSE LET i == CHOOSE j \in DOMAIN usuarios : usuarios[j].username = username
         IN  IF ~usuarios[i].activo THEN "inactivo"
             ELSE IF usuarios[i].password # hash_password(password) THEN "password"
             ELSE ""

\* C3: two failed logins show the caller the same thing (no identity and the
\* same text) whether the username is unknown, the password wrong or the
\* account inactive, and the step that ends a failed login shows that text.
C3_FalloIndistinguible ==
    LET fallidos == {e \in EntradasLogin : /\ e.username # "" /\ e.password # ""
                                           /\ Causa(e.username, e.password) # ""}
        vistos == {Observado(e.username, e.password) : e \in fallidos}
    IN  /\ Cardinality(vistos) <= 1
        /\ \A v \in vistos : v.usuario = None
        /\ salida.op = "login_fallido" => salida.mensaje = MsgLoginIncorrecto

\* C3 happens: the three causes are all present in one state and a login has
\* just been refused.
C3_Testigo ==
    /\ salida = Salida("login_fallido", MsgLoginIncorrecto)
    /\ \E e1, e2, e3 \in EntradasLogin :
          /\ e1.password # "" /\ e2.password # "" /\ e3.password # ""
          /\ Causa(e1.username, e1.password) = "desconocido"
          /\ Causa(e2.username, e2.password) = "password"
          /\ Causa(e3.username, e3.password) = "inactivo"
          /\ hash_password(e3.password) = usuarios[CHOOSE j \in DOMAIN usuarios :
                                              usuarios[j].username = e3.username].password

\* The digests in the table.
Digests == {usuarios[i].password : i \in DOMAIN usuarios}

\* An identity has the five public columns and none of them holds a digest.
SoloPublico(identidad) ==
    /\ DOMAIN identidad = CamposIdentidad
    /\ \A campo \in {"username", "nombre", "rol", "permisos"} : identidad[campo] \notin Digests

\* C4: the identity autenticar_usuario returns, the identity a login carries
\* to its last statement and the identity in any session slot have exactly
\* the fields id, username, nombre, rol and permisos; the stored digest is in
\* none of them.
C4_IdentidadSinDigest ==
    /\ \A c \in Conexiones : usuario[c] # None => SoloPublico(usuario[c])
    /\ \A c \in Conexiones :
          pc[c] \in {"login_update", "login_log"} => SoloPublico(pendiente[c].identidad)
    /\ \A e \in EntradasLogin :
          LET ret == Autentica(e.username, e.password)
          IN  ret # None => SoloPublico(ret)

\* C4 happens: both sessions hold an identity, of two different users.
C4_Testigo ==
    /\ \A c \in Conexiones : usuario[c] # None
    /\ \E c, d \in Conexiones : usuario[c].id # usuario[d].id

\* C5: after a password change that reported success, and until the next
\* UPDATE of that user's password, the password given as current is refused
\* when the new one differs from it, and the new one is accepted.
C5_CambioInvalidaYValida ==
    \A g \in reportado :
        (/\ g.origen = "cambiar"
         /\ usuarios[g.id].activo
         /\ \A c \in Conexiones : pc[c] = "cambiar_log" => pendiente[c].id # g.id) =>
            /\ g.anterior # g.password => Autentica(g.username, g.anterior) = None
            /\ Autentica(g.username, g.password) # None
            /\ Autentica(g.username, g.password).id = g.id

\* A submission of the password form that passes the three validations.
CambiarBienFormado(e) ==
    /\ e.password_actual # "" /\ e.nueva_password # "" /\ e.confirmar_password # ""
    /\ e.nueva_password = e.confirmar_password
    /\ Len(e.nueva_password) >= MinPasswordLen

\* A submission of the creation form that passes the three validations.
CrearBienFormado(e) ==
    /\ e.username # "" /\ e.nombre # "" /\ e.password # "" /\ e.confirm_password # ""
    /\ e.password = e.confirm_password
    /\ Len(e.password) >= MinPasswordLen

\* What the session of c gets for a submission of either form.
EnviarCambiar(c, e) ==
    formulario_cambiar(tablas, usuarios, usuario[c].id,
                       e.password_actual, e.nueva_password, e.confirmar_password)
EnviarCrear(c, e) ==
    formulario_crear(tablas, usuarios, usuario[c].id,
                     e.username, e.nombre, e.rol, e.password, e.confirm_password)

\* What each password of the login form gets for a username.
AutenticaTodas(username) == [p \in Passwords |-> Autentica(username, p)]

\* C6: a well-formed password change whose current password does not hash to
\* the digest stored for the session's user is answered "Contraseña actual
\* incorrecta" and leaves no UPDATE to execute; the step that shows that
\* text changes no row of usuarios or of logs_sistema, and every password
\* authenticates each user after it as before.
C6_PasswordActualIncorrecta ==
    /\ [](\A c \in Conexiones, e \in EntradasCambiar :
            (/\ EnUsuarios(c)
             /\ CambiarBienFormado(e)
             /\ hash_password(e.password_actual)
                   # ColumnaDe(usuarios, usuario[c].id, "password")) =>
                EnviarCambiar(c, e) = [mensaje |-> MsgCambiarIncorrecta, pendiente |-> None])
    /\ [][salida' = Salida("cambiar", MsgCambiarIncorrecta) =>
             /\ db' = db
             /\ pendiente' = pendiente
             /\ pc' = pc
             /\ \A i \in DOMAIN usuarios :
                   AutenticaTodas(usuarios[i].username)' = AutenticaTodas(usuarios[i].username)]_vars

\* C6 happens: a password change was just refused for its current password
\* and the password of the session's user still logs in.
C6_Testigo ==
    /\ salida = Salida("cambiar", MsgCambiarIncorrecta)
    /\ \E c \in Conexiones :
          /\ usuario[c] # None
          /\ pc[c] = "idle"
          /\ \E l \in EntradasLogin :
                /\ l.username = usuario[c].username
                /\ Autentica(l.username, l.password) # None

\* The texts of the validations of the two forms.
MensajesValidacion ==
    {MsgCrearCampos, MsgCrearNoCoinciden, MsgCrearCorta,
     MsgCambiarCampos, MsgCambiarNoCoinciden, MsgCambiarCorta}

\* C7: a creation or password-change submission with an empty field, with a
\* password that differs from its confirmation or with a password of fewer
\* than six characters is answered with one of the form's validation texts,
\* whatever the database holds, and leaves no statement to execute; the
\* step that shows such a text changes no row of any table.
C7_ValidacionSinEfecto ==
    /\ [](\A c \in Conexiones :
            EnUsuarios(c) =>
                /\ \A e \in EntradasCrear :
                      ~CrearBienFormado(e) =>
                          /\ EnviarCrear(c, e).mensaje \in
                                {MsgCrearCampos, MsgCrearNoCoinciden, MsgCrearCorta}
                          /\ EnviarCrear(c, e).pendiente = None
                          /\ EnviarCrear(c, e) =
                                formulario_crear(FALSE, <<>>, 0, e.username, e.nombre, e.rol,
                                                 e.password, e.confirm_password)
                /\ \A e \in EntradasCambiar :
                      ~CambiarBienFormado(e) =>
                          /\ EnviarCambiar(c, e).mensaje \in
                                {MsgCambiarCampos, MsgCambiarNoCoinciden, MsgCambiarCorta}
                          /\ EnviarCambiar(c, e).pendiente = None
                          /\ EnviarCambiar(c, e) =
                                formulario_cambiar(FALSE, <<>>, 0, e.password_actual,
                                                   e.nueva_password, e.confirmar_password))
    /\ [][(salida'.op \in {"crear", "cambiar"} /\ salida'.mensaje \in MensajesValidacion) =>
             /\ db' = db
             /\ pendiente' = pendiente
             /\ pc' = pc]_vars

\* C7 happens: a creation was just refused for the length of its password,
\* and no session has a statement left to execute.
C7_Testigo ==
    /\ salida = Salida("crear", MsgCrearCorta)
    /\ \A c \in Conexiones : pendiente[c] = None

\* C7 happens for the password form as well.
C7_TestigoCambiar ==
    /\ salida = Salida("cambiar", MsgCambiarNoCoinciden)
    /\ \A c \in Conexiones : pendiente[c] = None

\* C8: no two rows of usuarios have the same username, compared byte by
\* byte, whatever the interleaving of creations and init_database runs.
C8_UsernameUnico ==
    \A i, j \in DOMAIN usuarios :
        usuarios[i].username = usuarios[j].username => i = j

\* C8 happens: two sessions passed the SELECT of crear_usuario_sistema for the
\* same username, the INSERT of the second was refused, and the table holds
\* two usernames that differ in case only.
C8_Testigo ==
    /\ salida = Salida("crear_insert", MsgCrearError)
    /\ \E i, j \in DOMAIN usuarios :
          /\ usuarios[i].username = "admin"
          /\ usuarios[j].username = "Admin"

\* C9: a creation under a username some row has, whether its SELECT or its
\* INSERT meets the row, is answered "El nombre de usuario ya existe" and
\* changes nothing in the database, so that every password logs each
\* username in afterwards exactly when it did before.
C9_DuplicadoRechazado ==
    [][/\ salida' = Salida("crear", MsgCrearExiste) => db' = db
       /\ \A c \in Conexiones :
             (/\ pc[c] = "crear_insert"
              /\ pc'[c] # "crear_insert"
              /\ ExisteUsername(usuarios, pendiente[c].username)) =>
                 /\ salida'.mensaje = MsgCrearExiste
                 /\ db' = db
                 /\ \A i \in DOMAIN usuarios :
                       AutenticaTodas(usuarios[i].username)'
                           = AutenticaTodas(usuarios[i].username)]_vars

\* C10: init_database on an empty table leaves exactly one row, username
\* 'admin' with rol 'admin'; on a table that holds the row of 'admin',
\* whatever happened to its password and whoever else was created,
\* init_database and its INSERT executed alone leave the table as it is; and
\* a step of init_database changes the database only by appending that row
\* to a table without a row of 'admin'.
C10_ArranqueIdempotente ==
    /\ [](IF usuarios = <<>>
          THEN /\ Len(init_database(usuarios)) = 1
               /\ init_database(usuarios)[1].username = "admin"
               /\ init_database(usuarios)[1].rol = "admin"
               /\ init_database(usuarios)[1].activo
               /\ InsertarUsuario(usuarios, AdminRow(1)) = init_database(usuarios)
               /\ init_database(init_database(usuarios)) = init_database(usuarios)
          ELSE CuentaAdmin(usuarios) >= 1 =>
                  /\ init_database(usuarios) = usuarios
                  /\ InsertarUsuario(usuarios, AdminRow(Len(usuarios) + 1)) = usuarios)
    /\ [][salida'.op \in {"arranque_select", "arranque_insert"} =>
             /\ <<productos, logs_sistema, bloqueo>>' = <<productos, logs_sistema, bloqueo>>
             /\ \/ usuarios' = usuarios
                \/ /\ CuentaAdmin(usuarios) = 0
                   /\ salida'.op = "arranque_insert"
                   /\ usuarios' = Append(usuarios, AdminRow(Len(usuarios) + 1))]_vars

\* C10 happens: init_database has just run again on a table of two rows, the
\* administrator's with a password other than the default one.
C10_Testigo ==
    /\ salida = Salida("arranque_select", SinMensaje)
    /\ Len(usuarios) = 2
    /\ usuarios[1].username = "admin"
    /\ usuarios[1].password # hash_password("Admin2024!")
    /\ usuarios[2].username = "Admin"

\* Some run of init_database has created the schema and none is between its
\* SELECT and its INSERT.
Inicializado == tablas /\ \A c \in Conexiones : pc[c] # "boot_insert"

\* C11: once init_database has run, whatever creations, logins, password
\* changes, logouts and re-initializations follow, some row of usuarios has
\* rol 'admin'.
C11_ExisteAdmin ==
    Inicializado => \E i \in DOMAIN usuarios : usuarios[i].rol = "admin"

\* C11 happens: after a login, the creation of a user of another role and a
\* logout, the only row with rol 'admin' is the one init_database inserted.
C11_Testigo ==
    /\ Inicializado
    /\ salida = Salida("logout", SinMensaje)
    /\ Len(usuarios) = 2
    /\ {i \in DOMAIN usuarios : usuarios[i].rol = "admin"} = {1}

\* The table of sections by role.
TablaSecciones(rol) ==
    IF rol = "admin"
    THEN {"dashboard", "inventario", "usuarios", "ventas", "reportes", "configuracion"}
    ELSE IF rol = "ventas" THEN {"dashboard", "inventario", "ventas", "reportes"}
    ELSE IF rol = "produccion" THEN {"dashboard", "inventario", "reportes"}
    ELSE {"dashboard", "inventario"}

Rango(f) == {f[i] : i \in DOMAIN f}

\* C12: whatever the role of the session, inside the selectbox or not, the
\* tabs mostrar_menu_principal offers are those of the table, every tab
\* offered shows its module, and a role other than admin, ventas and
\* produccion gets dashboard and inventario only.
C12_TablaDeSecciones ==
    salida.op = "menu" =>
        \A r \in {salida.mensaje} :
            /\ \E c \in Conexiones : usuario[c] # None /\ usuario[c].rol = r.rol
            /\ Rango(r.tabs) = TablaSecciones(r.rol)
            /\ r.modulos = r.tabs
            /\ r.rol \notin {"admin", "ventas", "produccion"}
                  => Rango(r.tabs) = {"dashboard", "inventario"}

\* C12 happens: the menu of a session whose role is 'produccion' has been
\* rendered, without the tab usuarios and with the tab inventario.
C12_Testigo ==
    /\ salida.op = "menu"
    /\ salida.mensaje.rol = "produccion"
    /\ "usuarios" \notin Rango(salida.mensaje.tabs)
    /\ "inventario" \in Rango(salida.mensaje.modulos)

\* C12 happens for a role outside the selectbox as well.
C12_TestigoAjeno ==
    /\ salida.op = "menu"
    /\ salida.mensaje.rol \in RolesAjenos

\* C13: the slot st.session_state.usuario of a session holds the identity of
\* a row of usuarios or None, and changes in two ways only: from None to the
\* identity autenticar_usuario returns to the login running in that session,
\* and to None by the logout of that session, which writes the LOGOUT row of
\* the identity; a step changes the slot of one session at most.
C13_SoloLoginInstala ==
    /\ [](\A c \in Conexiones :
            usuario[c] # None =>
                \E i \in DOMAIN usuarios : usuario[c] = Identidad(usuarios[i]))
    /\ [][\A c \in Conexiones :
             usuario'[c] # usuario[c] =>
                 /\ \A d \in Conexiones \ {c} : usuario'[d] = usuario[d]
                 /\ \/ /\ usuario[c] = None
                       /\ pc[c] = "login_log"
                       /\ usuario'[c] = pendiente[c].identidad
                       /\ salida' = Salida("login_log", MsgLoginOk)
                    \/ /\ usuario'[c] = None
                       /\ logout_trigger[c]
                       /\ salida' = Salida("logout", SinMensaje)
                       /\ logs_sistema' = Append(logs_sistema,
                              LogRow(usuario[c].id, "AUTH", "LOGOUT", "Usuario cerró sesión"))]_vars

\* C13 happens: c1 holds the identity of the administrator while c2, which
\* had logged in too, has just logged out.
C13_Testigo ==
    /\ usuarios # <<>>
    /\ usuario["c1"] = Identidad(usuarios[1])
    /\ usuario["c2"] = None
    /\ salida = Salida("logout", SinMensaje)
    /\ Len(logs_sistema) = 3

\* What a session does behind the login page: the runs that follow a rerun,
\* the menu and its sections (the product form of the inventory among
\* them), the forms of mostrar_gestion_usuarios and their writes, the
\* button "Reinicializar BD" and the logout.
TrasElLogin(c) ==
    \/ MostrarDashboard(c)
    \/ ArranqueSelect(c)
    \/ ArranqueInsert(c)
    \/ ReinicializarBD(c)
    \/ MostrarMenuPrincipal(c)
    \/ \E e \in EntradasProducto : CrearProducto(c, e.codigo, e.nombre, FALSE)
    \/ CrearProductoLog(c, FALSE)
    \/ \E e \in EntradasCrear :
          CrearUsuarioForm(c, e.username, e.nombre, e.rol, e.password, e.confirm_password, FALSE)
    \/ CrearUsuarioInsert(c, FALSE)
    \/ CrearUsuarioLog(c, FALSE)
    \/ \E e \in EntradasCambiar :
          CambiarPasswordForm(c, e.password_actual, e.nueva_password, e.confirmar_password, FALSE)
    \/ CambiarPasswordUpdate(c, FALSE)
    \/ CambiarPasswordLog(c, FALSE)
    \/ LogoutBoton(c)
    \/ Logout(c, FALSE)

\* C14: a session whose slot is None can render no section and execute no
\* creation, password change, product creation or re-initialization, no
\* statement of theirs is pending in it, and when no login is running in it
\* its login form can be submitted.
C14_SinSesionSoloLogin ==
    \A c \in Conexiones :
        usuario[c] = None =>
            /\ ~ ENABLED TrasElLogin(c)
            /\ pc[c] \in {"idle", "login_fallido", "login_update", "login_log"}
            /\ pc[c] = "idle" =>
                  ENABLED (\E e \in EntradasLogin : MostrarLogin(c, e.username, e.password, FALSE))

\* C14 happens: c1 has logged in and out and is back on the login page
\* while c2 is in the middle of a creation.
C14_Testigo ==
    /\ usuario["c1"] = None
    /\ pc["c1"] = "idle"
    /\ \E i \in DOMAIN logs_sistema : logs_sistema[i].accion = "LOGOUT"
    /\ pc["c2"] = "crear_insert"

\* C15: a run of main() that carries a logout request empties the slot and
\* appends one LOGOUT row with the id of the identity the slot held; a second
\* such run right after it raises nothing and leaves the slot None and the
\* log as the first one left it.
C15_LogoutIdempotente ==
    \A c \in Conexiones :
        \A r1 \in {main(usuario[c], TRUE, logs_sistema, EscrituraFalla(FALSE))} :
            /\ ~r1.excepcion
            /\ r1.usuario = None
            /\ r1.logs = IF usuario[c] = None
                         THEN logs_sistema
                         ELSE Append(logs_sistema, LogRow(usuario[c].id, "AUTH", "LOGOUT",
                                                          "Usuario cerró sesión"))
            /\ \A r2 \in {main(r1.usuario, TRUE, r1.logs, EscrituraFalla(FALSE))} :
                  ~r2.excepcion /\ r2.usuario = None /\ r2.logs = r1.logs

\* C16: ultimo_acceso of a row changes only in the UPDATE of a login that
\* matched that row, and a login that has executed its UPDATE ends with the
\* identity of the row in the slot of its session.
C16_SoloLoginExitoso ==
    [][/\ \A i \in DOMAIN usuarios :
             usuarios'[i].ultimo_acceso # usuarios[i].ultimo_acceso =>
                 \E c \in Conexiones :
                     pc[c] = "login_update" /\ pc'[c] = "login_log" /\ pendiente[c].id = i
       /\ \A c \in Conexiones :
             (pc[c] = "login_log" /\ pc'[c] # "login_log") =>
                 usuario'[c] = pendiente[c].identidad]_vars

\* C17 as the specification states it: with a matching row, autenticar_usuario
\* returns the identity even when the UPDATE of ultimo_acceso raises.
C17_ComoEstaEscrita ==
    \A e \in EntradasLogin :
        tablas /\ FilasAutenticadas(usuarios, e.username, e.password) # {} =>
            autenticar_usuario_falla(tablas, usuarios, logs_sistema,
                                     e.username, e.password, "update", UnSegundo).ret # None

\* C17, amended: with a matching row, autenticar_usuario returns the identity
\* when no statement raises; when the UPDATE of ultimo_acceso raises it
\* returns None and has written neither ultimo_acceso nor a log row, and
\* the page of the login whose UPDATE raised shows the text of a failed login.
C17_FalloDeUpdateRechaza ==
    /\ \A e \in EntradasLogin, ahora \in CURRENT_TIMESTAMP(usuarios) :
          tablas /\ FilasAutenticadas(usuarios, e.username, e.password) # {} =>
              /\ autenticar_usuario_falla(tablas, usuarios, logs_sistema,
                                          e.username, e.password, "", ahora).ret # None
              /\ \A r \in {autenticar_usuario_falla(tablas, usuarios, logs_sistema,
                                                    e.username, e.password, "update", ahora)} :
                    r.ret = None /\ r.usuarios = usuarios /\ r.logs = logs_sistema
    /\ ("falla" \in DOMAIN salida /\ salida.op = "login" /\ salida.falla = "update") =>
          salida.mensaje = MsgLoginIncorrecto

\* C17 happens: a login with matching credentials has met a fault at the
\* UPDATE, the page shows the text of a failed login, and the row that
\* matched has never been logged in.
C17_Testigo ==
    /\ "falla" \in DOMAIN salida
    /\ salida.op = "login"
    /\ salida.falla = "update"
    /\ salida.mensaje = MsgLoginIncorrecto
    /\ salida.entrada.id = 1
    /\ usuarios[1].ultimo_acceso = 0
    /\ logs_sistema = <<>>
    /\ \A c \in Conexiones : usuario[c] = None

\* The rows a call of autenticar_usuario adds to logs_sistema.
FilasNuevas(r) == SubSeq(r.logs, Len(logs_sistema) + 1, Len(r.logs))

\* The details of the rows autenticar_usuario writes for username over the
\* passwords of the login form, for the calls that match (TRUE) or do not.
DetallesDe(username, coincide) ==
    {FilasNuevas(autenticar_usuario(tablas, usuarios, logs_sistema, username, p,
                                    UnSegundo))[1].detalles :
        p \in {q \in {e.password : e \in EntradasLogin} :
                  (FilasAutenticadas(usuarios, username, q) # {}) = coincide}}

\* C18: on an initialized database every call of autenticar_usuario adds
\* exactly one row to logs_sistema: with a matching row the row (id of the
\* match, AUTH, LOGIN_EXITOSO, 'Usuario: ' + username), without one the row
\* (NULL, AUTH, LOGIN_FALLIDO, 'Intento fallido para usuario: ' + username);
\* for a username the detail is the same whatever the password.
C18_UnaFilaPorLlamada ==
    tablas =>
        \A e \in EntradasLogin :
            \A r \in {autenticar_usuario_falla(tablas, usuarios, logs_sistema,
                                               e.username, e.password, Bloqueado, UnSegundo)} :
                /\ Len(r.logs) = Len(logs_sistema) + 1
                /\ IF FilasAutenticadas(usuarios, e.username, e.password) # {}
                   THEN /\ r.ret # None
                        /\ FilasNuevas(r)[1] = LogRow(r.ret.id, "AUTH", "LOGIN_EXITOSO",
                                                      "Usuario: " \o e.username)
                        /\ r.ret.username = e.username
                   ELSE /\ r.ret = None
                        /\ FilasNuevas(r)[1] = LogRow(0, "AUTH", "LOGIN_FALLIDO",
                                                      "Intento fallido para usuario: " \o e.username)
                /\ Cardinality(DetallesDe(e.username, TRUE)) <= 1
                /\ Cardinality(DetallesDe(e.username, FALSE)) <= 1

\* C19: whatever is submitted to the login form and at whichever statement
\* of autenticar_usuario the storage raises, the call returns None and the
\* page shows one of its own two texts and no exception; the step of a login
\* that meets the fault shows that text and changes no slot.
C19_FallaEsAuthFailure ==
    /\ [](\A e \in EntradasLogin, falla \in FallasAutenticar \cup {"bloqueo"},
             ahora \in CURRENT_TIMESTAMP(usuarios) :
            \A r \in {mostrar_login_falla(tablas, usuarios, logs_sistema,
                                          e.username, e.password, falla, ahora)} :
                /\ r.usuario = None
                /\ r.mensaje \in {MsgLoginCampos, MsgLoginIncorrecto})
    /\ [][salida'.op = "login" =>
             /\ salida'.mensaje \in {MsgLoginCampos, MsgLoginIncorrecto}
             /\ usuario' = usuario
             /\ \A c \in Conexiones : pc'[c] # pc[c] => pc'[c] = "idle" /\ usuario'[c] = None]_vars

\* C19 happens: the credentials matched, the UPDATE was committed, the
\* INSERT of the log row raised and the page shows the text of a failed
\* login, with every slot None.
C19_Testigo ==
    /\ "falla" \in DOMAIN salida
    /\ salida.op = "login"
    /\ salida.falla = "log"
    /\ salida.mensaje = MsgLoginIncorrecto
    /\ salida.entrada.id = 1
    /\ usuarios[1].ultimo_acceso > 0
    /\ \A c \in Conexiones : usuario[c] = None
    /\ logs_sistema = <<>>

\* The texts with which the forms report a rejected validation, a duplicate
\* username, a wrong password or a success; SinMensaje is the logout, and
\* the statements of a form before its last, which show none.
MensajesPropios ==
    {MsgCrearCampos, MsgCrearNoCoinciden, MsgCrearCorta, MsgCrearExiste, MsgCrearOk,
     MsgCambiarCampos, MsgCambiarNoCoinciden, MsgCambiarCorta, MsgCambiarIncorrecta,
     MsgCambiarOk, SinMensaje}

\* C20: a creation, a password change or a logout, also one that meets a
\* storage fault, ends with one of the application's own texts on the page,
\* never with an uncaught exception nor with the text of the storage
\* engine's error.
C20_FallaSinErrorCrudo ==
    salida.op \in {"crear", "crear_insert", "crear_log", "cambiar", "cambiar_update",
                   "cambiar_log", "logout"} =>
        salida.mensaje \in MensajesPropios

\* The sessions whose slot a step changes.
SlotsCambiados == {c \in Conexiones : usuario'[c] # usuario[c]}

\* C21: a step of a login or of a logout changes the slot of the session
\* that takes it and of no other, a step of a login that fails or has not
\* reached its last statement changes no slot at all, and so does the
\* button of the logout, wherever the step falls among those of the other
\* sessions.
C21_SesionesIndependientes ==
    [][salida'.op \in {"login", "login_select", "login_update", "login_log", "login_fallido",
                       "logout_boton", "logout"} =>
          /\ Cardinality(SlotsCambiados) <= 1
          /\ salida'.op \notin {"login_log", "logout"} => usuario' = usuario
          /\ \A c \in SlotsCambiados :
                /\ pc'[c] # pc[c]
                /\ (usuario[c] = None) = (salida'.op = "login_log")]_vars

\* C21 happens: c2 has just logged in as the second user while c1 keeps the
\* identity of the administrator it logged in with.
C21_Testigo ==
    /\ salida = Salida("login_log", MsgLoginOk)
    /\ usuario["c1"] # None
    /\ usuario["c2"] # None
    /\ usuario["c1"].id = 1
    /\ usuario["c2"].id = 2

\* C21 happens with one identity in two sessions as well.
C21_TestigoMismaIdentidad ==
    /\ usuario["c1"] # None
    /\ usuario["c1"] = usuario["c2"]

\* Row i is written by the login of this step: ultimo_acceso alone differs
\* and the step is the UPDATE of a login whose SELECT matched row i.
EscritaPorLogin(i) ==
    /\ usuarios'[i] = [usuarios[i] EXCEPT !.ultimo_acceso = usuarios'[i].ultimo_acceso]
    /\ \E c \in Conexiones :
          pc[c] = "login_update" /\ pc'[c] = "login_log" /\ pendiente[c].id = i

\* Row i is written by the password change of this step: password alone
\* differs, it is the digest of the whole new password, and the session that
\* executes the UPDATE holds the identity of i.
EscritaPorCambio(i) ==
    /\ usuarios'[i] = [usuarios[i] EXCEPT !.password = usuarios'[i].password]
    /\ \E c \in Conexiones :
          /\ pc[c] = "cambiar_update" /\ pc'[c] = "cambiar_log"
          /\ usuario[c] # None /\ usuario[c].id = i
          /\ usuarios'[i].password = hash_password(pendiente[c].nueva_password)

\* C22: no step removes a row of usuarios or changes the id or the username
\* of one; a row that a step changes is either the row matched by the login
\* of that step, with ultimo_acceso the only column written, or the row of
\* the session that changes its password, with password the only column
\* written; rol, activo, creado_por and every other row stay as they were.
C22_SoloSusColumnas ==
    [][/\ Len(usuarios') >= Len(usuarios)
       /\ \A i \in DOMAIN usuarios :
             usuarios'[i] # usuarios[i] =>
                 /\ usuarios'[i].id = usuarios[i].id
                 /\ usuarios'[i].username = usuarios[i].username
                 /\ EscritaPorLogin(i) \/ EscritaPorCambio(i)
                 /\ \A j \in DOMAIN usuarios \ {i} : usuarios'[j] = usuarios[j]]_vars

\* C22 happens: with two rows in usuarios, the administrator has changed
\* its password after its login; its row differs from the bootstrap row in
\* password and ultimo_acceso only and the other row is as it was created.
C22_Testigo ==
    /\ salida = Salida("cambiar_log", MsgCambiarOk)
    /\ Len(usuarios) = 2
    /\ usuarios[1] = [AdminRow(1) EXCEPT !.password = usuarios[1].password,
                                         !.ultimo_acceso = usuarios[1].ultimo_acceso]
    /\ usuarios[1].password # AdminRow(1).password
    /\ usuarios[1].ultimo_acceso > 0
    /\ usuarios[2].ultimo_acceso = 0

\* The default credentials of the bootstrap administrator.
EntradaAdminPorDefecto == [username |-> "admin", password |-> "Admin2024!"]

\* C23: on a database file on which init_database has never run, the login
\* form submitted with admin and the default password puts the identity of
\* the administrator in the slot, because the tables and the bootstrap row
\* are created before the credentials are looked up.
C23_PrimerLoginInicializa ==
    ~tablas =>
        mostrar_login(tablas, usuarios, logs_sistema, EntradaAdminPorDefecto.username,
                      EntradaAdminPorDefecto.password, UnSegundo).usuario # None

\* What the program does instead: a database file without tables never
\* gets them, whatever the sessions do.
SinTablasParaSiempre == [][~tablas => ~tablas']_vars

\* C24: a creation that has committed the row of the new user reports
\* success, so that a creation that reports anything else has left the rows
\* of usuarios as they were, also when the storage raised while the CREACION
\* log row was written.
C24_FracasoSinUsuarioNuevo ==
    [][\A c \in Conexiones :
          (pc[c] = "crear_log" /\ pc'[c] # "crear_log") =>
              salida' = Salida("crear_log", MsgCrearOk)]_vars

\* C25: a password change executes its UPDATE only on the digest its current
\* password was verified against: a change that finds, when it comes to its
\* UPDATE, that the stored digest has been replaced does not go on to
\* report success.
C25_CambioAtomico ==
    [][\A c \in Conexiones :
          (pc[c] = "cambiar_update" /\ pc'[c] = "cambiar_log") =>
              ColumnaDe(usuarios, pendiente[c].id, "password")
                  = hash_password(pendiente[c].password_actual)]_vars

\* C26: a session that holds an identity, whatever its rol, can submit the
\* password form for its own account.
C26_CambioParaTodoRol ==
    \A c \in Conexiones :
        EnMenu(c) =>
            ENABLED (\E e \in EntradasCambiar :
                        CambiarPasswordForm(c, e.password_actual, e.nueva_password,
                                            e.confirmar_password, FALSE))

\* The row whose id a creado_por value names is a row of rol admin.
CreadoPorAdmin(us, i) ==
    \E j \in DOMAIN us : us[j].id = us[i].creado_por /\ us[j].rol = "admin"

\* C27: every row's creado_por is the id of an existing row of rol admin; the
\* row of the bootstrap administrator names itself; the creation form can
\* be submitted only in a session whose identity has rol admin, and the
\* statements of a creation run in such a session only, carrying that
\* identity's id.
C27_CreadoPorEsAdmin ==
    /\ \A i \in DOMAIN usuarios : CreadoPorAdmin(usuarios, i)
    /\ \A i \in DOMAIN usuarios :
          usuarios[i].username = "admin" => usuarios[i].creado_por = usuarios[i].id
    /\ \A c \in Conexiones :
          (ENABLED (\E e \in EntradasCreadores :
                       CrearUsuarioForm(c, e.username, e.nombre, e.rol, e.password,
                                        e.confirm_password, FALSE))) =>
              usuario[c] # None /\ usuario[c].rol = "admin"
    /\ \A c \in Conexiones :
          pc[c] \in {"crear_insert", "crear_log"} =>
              /\ usuario[c] # None
              /\ usuario[c].rol = "admin"
              /\ pendiente[c].admin_id = usuario[c].id

\* C27 happens: a second administrator, created by the first, has created a
\* third user: both statements have run and the row names the second
\* administrator.
C27_Testigo ==
    /\ salida = Salida("crear_log", MsgCrearOk)
    /\ Len(usuarios) = 3
    /\ usuarios[1].creado_por = 1
    /\ usuarios[2].rol = "admin"
    /\ usuarios[2].creado_por = 1
    /\ usuarios[3].rol = "produccion"
    /\ usuarios[3].creado_por = 2

====
